---- MODULE Spec2Model ----
(***************************************************************************)
(* A model of webstruct's token pipeline:                                  *)
(*   - Tagset (preprocess.py): sentinel substitution and matching,         *)
(*   - IobSequence (preprocess.py): the boundary-to-IOB2 label encoder,    *)
(*   - to_features_and_labels (preprocess.py): the head/children/tail walk,*)
(*   - HtmlFeaturesExtractor.fit_transform (feature_extraction.py),        *)
(*   - WordTokenizer / DefaultTokenizer (text_tokenizers.py).              *)
(* Python strings are modelled as sequences of one-character strings, so   *)
(* that slicing, prefix matching and case conversion are computed.         *)
(***************************************************************************)
EXTENDS Integers, Sequences, FiniteSets, TLC

VARIABLES
    \* ---- IobSequence driven over one token stream (encode) ----
    tagset,      \* Tagset.tagset of the encoder's Tagset
    tag,         \* IobSequence.tag
    start,       \* IobSequence.start
    tokens,      \* the argument of encode(tokens)
    pos,         \* number of tokens the generator has taken from tokens
    pairs,       \* the (token, label) pairs zip has produced so far
    failed,      \* TRUE once the assert of _handle_border_token has raised
    tag0,        \* encoder state when encode was called (history)
    start0,
    \* ---- to_features_and_labels walking one element tree ----
    tree,        \* the element tree: parent of every non-root element
    textset,     \* the texts the elements of this document may hold
    reads,       \* the runs processed so far, in order: element, is_tail, text read
    runIdx,      \* number of head/tail runs tokenize_and_split has been called for
    out,         \* the (features, label) pairs yielded so far
    walkFailed,  \* TRUE once an AssertionError has left the generator
    \* ---- HtmlFeaturesExtractor.fit_transform on one long-lived instance ----
    calls,       \* number of fit_transform calls made
    ftDoc,       \* the document of the last call (None before the first)
    ftResult,    \* what the last call did: the exception raised, the labels returned
    \* ---- WordTokenizer / DefaultTokenizer on one text ----
    tokText,     \* the text argument of span_tokenize
    tokenizer,   \* the class whose span_tokenize was called ("none" before the call)
    spans,       \* the list span_tokenize returned (empty before the call)
    \* ---- Tagset: encode_tags on a text, then the sentinel matchers ----
    html,        \* the argument of encode_tags
    phase,       \* "raw", then "encoded", then "decoded"
    encoded,     \* what encode_tags returned
    decoded,     \* start_tag_or_none / end_tag_or_none of every token of encoded
    \* ---- one IobSequence called method by method ----
    trace,        \* the calls made so far, in order: the method, its argument, the label returned
    \* ---- _span_tokenize run step by step on tokText ----
    stack,       \* the generator frames, the running one last: text, base, pc, i, token_start
    yielded,      \* the TextTokens the outermost generator has yielded so far
    \* ---- several traversals interleaved, one label_encoder each ----
    encs,        \* the (tag, start) of every IobSequence instance
    docs,        \* the document of every traversal: its head and tail texts in walk order
    taken,       \* number of tokens every traversal has taken from its document
    pending,     \* TRUE while a yielded token waits for its label from next(self)
    labels,      \* the labels every traversal has produced so far
    stopped,     \* TRUE once the assert has raised in the traversal
    \* ---- several traversals interleaved run by run, all handed one label_encoder ----
    shEnc,       \* the (tag, start) of the one IobSequence instance
    shDocs,      \* the document of every traversal: its head and tail texts in walk order
    shRuns,      \* number of head/tail runs every traversal has processed
    shLabels,    \* the labels every traversal has yielded so far
    shStopped    \* TRUE once the assert has raised in the traversal

encVars == <<tagset, tag, start, tokens, pos, pairs, failed, tag0, start0>>
walkVars == <<tree, textset, reads, runIdx, out, walkFailed>>

fitVars == <<calls, ftDoc, ftResult>>

tokVars == <<tokText, tokenizer, spans>>

tagVars == <<html, phase, encoded, decoded>>

apiVars == <<trace>>

scanVars == <<stack, yielded>>

concVars == <<encs, docs, taken, pending, labels, stopped>>

shareVars == <<shEnc, shDocs, shRuns, shLabels, shStopped>>

vars == <<encVars, walkVars, fitVars, tokVars, tagVars, apiVars, scanVars, concVars, shareVars>>

----------------------------------------------------------------------------
(* Bounds of the model.                                                    *)

\* longest token stream handed to encode
MaxTokens == 3

\* most elements of a walked tree
MaxNodes == 3

\* most fit_transform calls on one extractor
MaxCalls == 2

\* longest text handed to span_tokenize
MaxTextLen == 3

\* most pieces (single characters or whole markup tags) of a text handed to
\* encode_tags
MaxHtmlLen == 3

----------------------------------------------------------------------------
(* Python str helpers.                                                     *)

LowerLetters == <<"a","b","c","d","e","f","g","h","i","j","k","l","m",
                  "n","o","p","q","r","s","t","u","v","w","x","y","z">>
UpperLetters == <<"A","B","C","D","E","F","G","H","I","J","K","L","M",
                  "N","O","P","Q","R","S","T","U","V","W","X","Y","Z">>

\* the case mappings of the letters, as tables
UpperMap ==
    [c \in {LowerLetters[i] : i \in DOMAIN LowerLetters} |->
        UpperLetters[CHOOSE i \in DOMAIN LowerLetters : LowerLetters[i] = c]]
LowerMap ==
    [c \in {UpperLetters[i] : i \in DOMAIN UpperLetters} |->
        LowerLetters[CHOOSE i \in DOMAIN UpperLetters : UpperLetters[i] = c]]

\* str.upper() on one character
UpperChar(c) == IF c \in DOMAIN UpperMap THEN UpperMap[c] ELSE c

\* case folding of one character, as re.I compares
LowerChar(c) == IF c \in DOMAIN LowerMap THEN LowerMap[c] ELSE c

\* str.upper()
Upper(s) == [i \in DOMAIN s |-> UpperChar(s[i])]

\* s[a:b] for 0 <= a and a possibly negative b, Python slice semantics
Slice(s, a, b) ==
    LET hi == IF b < 0 THEN Len(s) + b ELSE IF b > Len(s) THEN Len(s) ELSE b
    IN  IF hi <= a THEN << >> ELSE SubSeq(s, a + 1, hi)

\* the Python value None (distinct from every str, which holds single characters)
None == <<"None">>

\* Python truthiness of a str-or-None value
Truthy(v) == v # None /\ v # << >>

\* regex.match(token) for a literal pattern compiled with re.I:
\* anchored at the start of token only, case-insensitive
MatchLiteralCI(pat, token) ==
    /\ Len(token) >= Len(pat)
    /\ \A i \in DOMAIN pat : LowerChar(token[i]) = LowerChar(pat[i])

----------------------------------------------------------------------------
(* Tagset: sentinel texts and the four compiled patterns.                  *)

\* the replacement templates of encode_tags, r' __\1_START ' and r' __\1_END ',
\* without the padding spaces: the sentinel token written for matched name n
StartSentinel(n) == <<"_","_">> \o n \o <<"_","S","T","A","R","T">>
EndSentinel(n)   == <<"_","_">> \o n \o <<"_","E","N","D">>

\* patterns['start_tag'].match(token): '__(%s)_START' % '|'.join(tagset), re.I
MatchStartTag(ts, token) ==
    \E t \in ts : MatchLiteralCI(StartSentinel(t), token)

\* patterns['end_tag'].match(token): '__(%s)_END' % '|'.join(tagset), re.I
MatchEndTag(ts, token) ==
    \E t \in ts : MatchLiteralCI(EndSentinel(t), token)

\* a variant of start_tag_or_none that keeps the name as the token spells it
start_tag_or_none_as_written(ts, token) ==
    IF MatchStartTag(ts, token) THEN Slice(token, 2, -6) ELSE None

\* Tagset.start_tag_or_none
start_tag_or_none(ts, token) ==
    IF MatchStartTag(ts, token) THEN Upper(Slice(token, 2, -6)) ELSE None

\* Tagset.end_tag_or_none
end_tag_or_none(ts, token) ==
    IF MatchEndTag(ts, token) THEN Upper(Slice(token, 2, -4)) ELSE None

----------------------------------------------------------------------------
(* IobSequence: the encoder state is the pair (tag, start).                *)

O == <<"O">>

\* IobSequence.begin: the state after begin(t)
begin(t) == [tag |-> t, start |-> TRUE]

\* a variant of __next__ that never clears the start flag
next_keeps_start(st) ==
    IF st.tag = O THEN [label |-> O, st |-> st]
    ELSE IF st.start
         THEN [label |-> <<"B","-">> \o st.tag, st |-> st]
         ELSE [label |-> <<"I","-">> \o st.tag, st |-> st]

\* a variant of __next__ without the test for the tag O
next_no_O_case(st) ==
    IF st.start
    THEN [label |-> <<"B","-">> \o st.tag, st |-> [st EXCEPT !.start = FALSE]]
    ELSE [label |-> <<"I","-">> \o st.tag, st |-> st]

\* IobSequence.__next__ on state st: the label returned and the state left
next(st) ==
    IF st.tag = O THEN [label |-> O, st |-> st]
    ELSE IF st.start
         THEN [label |-> <<"B","-">> \o st.tag, st |-> [st EXCEPT !.start = FALSE]]
         ELSE [label |-> <<"I","-">> \o st.tag, st |-> st]

\* a variant of _handle_border_token that closes the span at an end sentinel
\* but returns a falsy value, so that the sentinel is yielded as a token
handle_border_token_yields_end(ts, st, token) ==
    IF Truthy(start_tag_or_none(ts, token))
    THEN [ret |-> TRUE, raised |-> FALSE, st |-> begin(start_tag_or_none(ts, token))]
    ELSE IF Truthy(end_tag_or_none(ts, token))
         THEN IF end_tag_or_none(ts, token) = st.tag
              THEN [ret |-> FALSE, raised |-> FALSE, st |-> begin(O)]
              ELSE [ret |-> FALSE, raised |-> TRUE, st |-> st]
         ELSE [ret |-> FALSE, raised |-> FALSE, st |-> st]

\* a variant of _handle_border_token without the assert: any end sentinel
\* closes whatever span is open
handle_border_token_no_assert(ts, st, token) ==
    IF Truthy(start_tag_or_none(ts, token))
    THEN [ret |-> TRUE, raised |-> FALSE, st |-> begin(start_tag_or_none(ts, token))]
    ELSE IF Truthy(end_tag_or_none(ts, token))
         THEN [ret |-> TRUE, raised |-> FALSE, st |-> begin(O)]
         ELSE [ret |-> FALSE, raised |-> FALSE, st |-> st]

\* a variant of _handle_border_token that lets an open span go on when a
\* start sentinel arrives inside it
handle_border_token_keeps_open(ts, st, token) ==
    IF Truthy(start_tag_or_none(ts, token))
    THEN IF st.tag = O
         THEN [ret |-> TRUE, raised |-> FALSE, st |-> begin(start_tag_or_none(ts, token))]
         ELSE [ret |-> TRUE, raised |-> FALSE, st |-> st]
    ELSE IF Truthy(end_tag_or_none(ts, token))
         THEN IF end_tag_or_none(ts, token) = st.tag
              THEN [ret |-> TRUE, raised |-> FALSE, st |-> begin(O)]
              ELSE [ret |-> FALSE, raised |-> TRUE, st |-> st]
         ELSE [ret |-> FALSE, raised |-> FALSE, st |-> st]

\* a variant of _handle_border_token that closes the open span before the
\* assert on the end sentinel's tag
handle_border_token_closes_first(ts, st, token) ==
    IF Truthy(start_tag_or_none(ts, token))
    THEN [ret |-> TRUE, raised |-> FALSE, st |-> begin(start_tag_or_none(ts, token))]
    ELSE IF Truthy(end_tag_or_none(ts, token))
         THEN IF end_tag_or_none(ts, token) = st.tag
              THEN [ret |-> TRUE, raised |-> FALSE, st |-> begin(O)]
              ELSE [ret |-> FALSE, raised |-> TRUE, st |-> begin(O)]
         ELSE [ret |-> FALSE, raised |-> FALSE, st |-> st]

\* IobSequence._handle_border_token on state st:
\* ret is the truthiness of the returned value, raised is the failed assert
\* (the state is left untouched by a raise), st the state left
handle_border_token(ts, st, token) ==
    LET start_tag == start_tag_or_none(ts, token)
        end_tag   == end_tag_or_none(ts, token)
    IN  IF Truthy(start_tag)
        THEN [ret |-> TRUE, raised |-> FALSE, st |-> begin(start_tag)]
        ELSE IF Truthy(end_tag)
             THEN IF end_tag = st.tag
                  THEN [ret |-> TRUE, raised |-> FALSE, st |-> begin(O)]
                  ELSE [ret |-> FALSE, raised |-> TRUE, st |-> st]
             ELSE [ret |-> FALSE, raised |-> FALSE, st |-> st]

(* encode(tokens) = zip(_process_border_tokens(tokens), self), consumed one  *)
(* input token per step: the generator takes the next token, a border token *)
(* is handled and skipped, any other token is yielded and zip then takes    *)
(* the label from __next__.                                                 *)

encState == [tag |-> tag, start |-> start]

\* the generator meets a start sentinel: begin(start_tag), no pair
EncStartTag ==
    /\ ~failed /\ pos < Len(tokens)
    /\ Truthy(start_tag_or_none(tagset, tokens[pos + 1]))
    /\ \E r \in {handle_border_token(tagset, encState, tokens[pos + 1])} :
          /\ r.ret
          /\ tag' = r.st.tag /\ start' = r.st.start
    /\ pos' = pos + 1
    /\ UNCHANGED <<tagset, tokens, pairs, failed, tag0, start0, walkVars, fitVars, tokVars, tagVars, apiVars, scanVars, concVars, shareVars>>

\* the generator meets an end sentinel of the active tag: begin('O'), no pair
EncEndTag ==
    /\ ~failed /\ pos < Len(tokens)
    /\ ~Truthy(start_tag_or_none(tagset, tokens[pos + 1]))
    /\ \E r \in {handle_border_token(tagset, encState, tokens[pos + 1])} :
          /\ r.ret
          /\ tag' = r.st.tag /\ start' = r.st.start
    /\ pos' = pos + 1
    /\ UNCHANGED <<tagset, tokens, pairs, failed, tag0, start0, walkVars, fitVars, tokVars, tagVars, apiVars, scanVars, concVars, shareVars>>

\* the assert on the end sentinel's tag fails: AssertionError leaves encode
EncEndTagRaise ==
    /\ ~failed /\ pos < Len(tokens)
    /\ \E r \in {handle_border_token(tagset, encState, tokens[pos + 1])} :
          /\ r.raised
          /\ tag' = r.st.tag /\ start' = r.st.start
    /\ pos' = pos + 1
    /\ failed' = TRUE
    /\ UNCHANGED <<tagset, tokens, pairs, tag0, start0, walkVars, fitVars, tokVars, tagVars, apiVars, scanVars, concVars, shareVars>>

\* any other token is yielded and paired with next(self)
EncYield ==
    /\ ~failed /\ pos < Len(tokens)
    /\ \E r \in {handle_border_token(tagset, encState, tokens[pos + 1])} :
          /\ ~r.ret /\ ~r.raised
          /\ \E n \in {next(r.st)} :
                /\ pairs' = Append(pairs, <<tokens[pos + 1], n.label>>)
                /\ tag' = n.st.tag /\ start' = n.st.start
    /\ pos' = pos + 1
    /\ UNCHANGED <<tagset, tokens, failed, tag0, start0, walkVars, fitVars, tokVars, tagVars, apiVars, scanVars, concVars, shareVars>>

\* the walker's variables while no tree is walked
WalkIdle ==
    /\ tree = << >> /\ textset = {} /\ reads = << >>
    /\ runIdx = 0 /\ out = << >> /\ walkFailed = FALSE

\* the extractor's variables while no extractor is used
FitIdle == calls = 0 /\ ftDoc = None /\ ftResult = None

\* the tokenizer's variables while no text is tokenized
TokIdle == tokText = << >> /\ tokenizer = "none" /\ spans = << >>

\* no traversal shares an encoder
ShareIdle ==
    /\ shEnc = << >> /\ shDocs = << >> /\ shRuns = << >>
    /\ shLabels = << >> /\ shStopped = << >>

\* no traversal is running
ConcIdle ==
    /\ encs = << >> /\ docs = << >> /\ taken = << >>
    /\ pending = << >> /\ labels = << >> /\ stopped = << >>

\* no generator is running
ScanIdle == stack = << >> /\ yielded = << >>

\* no method call is recorded
ApiIdle == trace = << >>

\* the codec's variables while no text is encoded
TagIdle == html = << >> /\ phase = "idle" /\ encoded = << >> /\ decoded = << >>

\* ---- inputs of the encoder specification ----
PER == <<"P","E","R">>
ORG == <<"O","R","G">>
per == <<"p","e","r">>
org == <<"o","r","g">>

\* configured tagsets: names are entity types, never the reserved label O
TagsetChoices == {{PER}, {per, ORG}}

\* real tokens, sentinels as encode_tags writes them (the name keeps the case
\* of the markup), and a sentinel look-alike
TokenChoices ==
    { <<"a">>, <<"b">>,
      StartSentinel(PER), EndSentinel(PER), EndSentinel(per),
      StartSentinel(ORG), EndSentinel(org) }

\* the states an IobSequence can be in: begin(t) followed by zero or more next()
EncStates ==
    {begin(O)} \cup
    {[tag |-> t, start |-> b] : t \in {PER, ORG}, b \in BOOLEAN}

SeqsUpTo(S, n) == UNION {[1..k -> S] : k \in 0..n}

InitEncoder ==
    /\ tagset \in TagsetChoices
    /\ tokens \in SeqsUpTo(TokenChoices, MaxTokens)
    /\ \E st \in EncStates :
          /\ tag = st.tag /\ start = st.start
          /\ tag0 = st.tag /\ start0 = st.start
    /\ pos = 0
    /\ pairs = << >>
    /\ failed = FALSE
    /\ WalkIdle
    /\ FitIdle
    /\ TokIdle
    /\ TagIdle
    /\ ApiIdle
    /\ ScanIdle
    /\ ConcIdle
    /\ ShareIdle

NextEncoder == EncStartTag \/ EncEndTag \/ EncEndTagRaise \/ EncYield

SpecEncoder == InitEncoder /\ [][NextEncoder]_vars

----------------------------------------------------------------------------
(* Claims about IobSequence.encode, checked under SpecEncoder.             *)

\* a real token matches neither sentinel pattern of the tagset
IsReal(token) == ~MatchStartTag(tagset, token) /\ ~MatchEndTag(tagset, token)

\* the indices of the real tokens among the first n input tokens, in order
RealIndices(n) ==
    LET Test(i) == IsReal(tokens[i])
    IN  SelectSeq([i \in 1..n |-> i], Test)

\* C1: encode emits exactly one (token, label) pair per non-sentinel token, in
\* input order, and none for a start or end sentinel: at every moment the
\* tokens of the pairs emitted are exactly the real tokens among the input
\* consumed so far, and when encode has run to the end of the input the number
\* of pairs equals the number of tokens that match neither sentinel pattern.
C1_OnePairPerRealToken ==
    LET idx == RealIndices(pos)
    IN  /\ Len(pairs) = Len(idx)
        /\ \A k \in DOMAIN pairs : pairs[k][1] = tokens[idx[k]]
        /\ (pos = Len(tokens) /\ ~failed) =>
              Len(pairs) = Cardinality({i \in DOMAIN tokens : IsReal(tokens[i])})

\* encode has finished a stream holding a start sentinel, an end sentinel and
\* a real token
C1_Witness ==
    /\ pos = Len(tokens) /\ ~failed
    /\ Len(pairs) >= 1
    /\ \E i \in DOMAIN tokens : MatchStartTag(tagset, tokens[i])
    /\ \E i \in DOMAIN tokens : MatchEndTag(tagset, tokens[i])

\* the upper-cased tagset name a sentinel token was written for
SentinelTag(token) ==
    Upper(CHOOSE t \in tagset :
              \/ MatchLiteralCI(StartSentinel(t), token)
              \/ MatchLiteralCI(EndSentinel(t), token))

\* the label the IOB2 scheme prescribes for the real token at index i, read
\* off the input stream alone: the nearest sentinel before i decides
ExpectedLabel(i) ==
    LET before == {j \in 1..(i - 1) : ~IsReal(tokens[j])}
        j      == IF before = {} THEN 0
                  ELSE CHOOSE m \in before : \A n \in before : n <= m
        first  == \A m \in (j + 1)..(i - 1) : ~IsReal(tokens[m])
    IN  IF j = 0
        THEN IF tag0 = O THEN O
             ELSE IF start0 /\ first THEN <<"B","-">> \o tag0
                  ELSE <<"I","-">> \o tag0
        ELSE IF MatchStartTag(tagset, tokens[j])
             THEN IF first THEN <<"B","-">> \o SentinelTag(tokens[j])
                  ELSE <<"I","-">> \o SentinelTag(tokens[j])
             ELSE O

\* C2: after a start sentinel for tag T the first following real token is
\* labelled B-T, every further real token up to the matching end sentinel is
\* labelled I-T, and every real token outside an open span is labelled O.
C2_IobLabels ==
    LET idx == RealIndices(pos)
    IN  \A k \in DOMAIN pairs :
            k <= Len(idx) => pairs[k][2] = ExpectedLabel(idx[k])

\* a stream in which a start sentinel is followed by two real tokens labelled
\* B-T and I-T
C2_Witness ==
    \E i \in DOMAIN tokens, k \in DOMAIN pairs :
        /\ MatchStartTag(tagset, tokens[i])
        /\ k + 1 \in DOMAIN pairs
        /\ pairs[k][2] = <<"B","-">> \o SentinelTag(tokens[i])
        /\ pairs[k + 1][2] = <<"I","-">> \o SentinelTag(tokens[i])

\* the next input token is an end sentinel whose tag is not the active tag
MismatchedEndAhead ==
    /\ ~failed /\ pos < Len(tokens)
    /\ ~MatchStartTag(tagset, tokens[pos + 1])
    /\ MatchEndTag(tagset, tokens[pos + 1])
    /\ SentinelTag(tokens[pos + 1]) # tag

\* C3: an end sentinel whose upper-cased tag differs from the active tag (also
\* when the active tag is O) makes the encoder fail on every such attempt: the
\* step that takes it raises, emits no pair and leaves the state as it was;
\* it is never consumed silently.
C3_MismatchedEndRaises ==
    [][MismatchedEndAhead =>
          /\ failed'
          /\ pairs' = pairs
          /\ tag' = tag /\ start' = start]_vars

\* the encoder has failed on an end sentinel received with no span open
C3_Witness ==
    /\ failed
    /\ tag = O
    /\ MatchEndTag(tagset, tokens[pos])

----------------------------------------------------------------------------
(* to_features_and_labels: the head / children / tail walk of one element  *)
(* tree, with the whitespace tokenizer of its doctest and one IobSequence. *)

IsSpace(c) == c \in {" ", "\t", "\n"}

RECURSIVE SplitFrom(_, _, _)
\* the words of s from index i on, cur being the word collected so far
SplitFrom(s, i, cur) ==
    IF i > Len(s)
    THEN IF cur = << >> THEN << >> ELSE <<cur>>
    ELSE IF IsSpace(s[i])
         THEN IF cur = << >> THEN SplitFrom(s, i + 1, << >>)
              ELSE <<cur>> \o SplitFrom(s, i + 1, << >>)
         ELSE SplitFrom(s, i + 1, Append(cur, s[i]))

\* tokenize_func of the doctest: text.split()
split(s) == SplitFrom(s, 1, << >>)

RECURSIVE encode_list(_, _, _)
RECURSIVE encode_token(_, _, _)
RECURSIVE encode_yield(_, _, _)

\* list(self.encode(toks)) from encoder state st: the pairs, the state left,
\* and whether the assert raised (the state is then the one at the raise)
encode_list(ts, st, toks) ==
    IF toks = << >>
    THEN [pairs |-> << >>, st |-> st, raised |-> FALSE]
    ELSE encode_token(ts, handle_border_token(ts, st, Head(toks)), toks)

\* _process_border_tokens on the first token of toks, r being what
\* _handle_border_token did with it: raise, skip it, or yield it
encode_token(ts, r, toks) ==
    IF r.raised
    THEN [pairs |-> << >>, st |-> r.st, raised |-> TRUE]
    ELSE IF r.ret
         THEN encode_list(ts, r.st, Tail(toks))
         ELSE encode_yield(ts, next(r.st), toks)

\* the pair zip makes of a token and of its label
iob_pair(token, n) == <<token, n.label>>

\* a pair put in front of the pairs of the rest of the stream
pair_then(pair, rest) ==
    [pairs |-> <<pair>> \o rest.pairs, st |-> rest.st, raised |-> rest.raised]

\* zip pairs the yielded first token of toks with n = next(self) and goes on
encode_yield(ts, n, toks) ==
    pair_then(iob_pair(Head(toks), n), encode_list(ts, n.st, Tail(toks)))

\* a variant of zip(*res) that gives the labels first
unzip_swapped(res) ==
    [tokens |-> [k \in DOMAIN res.pairs |-> res.pairs[k][2]],
     labels |-> [k \in DOMAIN res.pairs |-> res.pairs[k][1]],
     st     |-> res.st,
     raised |-> res.raised]

\* zip(*res), or ((), ()) when res is empty: the tokens and the labels
unzip(res) ==
    [tokens |-> [k \in DOMAIN res.pairs |-> res.pairs[k][1]],
     labels |-> [k \in DOMAIN res.pairs |-> res.pairs[k][2]],
     st     |-> res.st,
     raised |-> res.raised]

\* IobSequence.encode_split: two tuples, the tokens and the labels
encode_split(ts, st, toks) == unzip(encode_list(ts, st, toks))

\* a variant of tokenize_and_split that hands text to tokenize_func as it is:
\* None has no split method
tokenize_and_split_no_or(ts, st, text) ==
    IF text = None
    THEN [tokens |-> << >>, labels |-> << >>, st |-> st, raised |-> TRUE]
    ELSE encode_split(ts, st, split(text))

\* a variant of tokenize_and_split that encodes every run from a new encoder
tokenize_and_split_fresh(ts, st, text) ==
    encode_split(ts, begin(O), split(IF text = None THEN << >> ELSE text))

\* tokenize_and_split(text): tokenize_func(text or '') through encode_split
tokenize_and_split(ts, st, text) ==
    encode_split(ts, st, split(IF text = None THEN << >> ELSE text))

\* the injected features_func, opaque: the observation is its argument list
features_func(index, run_tokens, elem, is_tail) ==
    [index |-> index, tokens |-> run_tokens, elem |-> elem, is_tail |-> is_tail]

\* a variant of the yield loops that counts the index from 1
run_pairs_from_one(r, elem, is_tail) ==
    [k \in DOMAIN r.tokens |->
        [features |-> features_func(k, r.tokens, elem, is_tail),
         label    |-> r.labels[k]]]

\* a variant of the yield loops that hands features_func is_tail=False in
\* the tail loop too
run_pairs_head_only(r, elem, is_tail) ==
    [k \in DOMAIN r.tokens |->
        [features |-> features_func(k - 1, r.tokens, elem, FALSE),
         label    |-> r.labels[k]]]

\* the pairs one head or tail run yields:
\* for index, (token, label) in enumerate(zip(run_tokens, run_labels))
run_pairs(r, elem, is_tail) ==
    [k \in DOMAIN r.tokens |->
        [features |-> features_func(k - 1, r.tokens, elem, is_tail),
         label    |-> r.labels[k]]]

\* An element tree is the sequence of its elements' parents, the elements
\* numbered in document order from the root 1 (whose parent is 0).
Kids(t, n) ==
    LET Test(i) == t[i] = n
    IN  SelectSeq([i \in 1..Len(t) |-> i], Test)

RECURSIVE RunsOf(_, _)
RECURSIVE RunsOfAll(_, _)
\* a variant of the walk that processes the tail of n before its children
RunsOf_tail_first(t, n) ==
    <<[elem |-> n, is_tail |-> FALSE]>>
        \o <<[elem |-> n, is_tail |-> TRUE]>>
        \o RunsOfAll(t, Kids(t, n))

\* the runs to_features_and_labels(n) processes, in the order it does:
\* the head of n, then each child's generator in turn, then the tail of n
RunsOf(t, n) ==
    <<[elem |-> n, is_tail |-> FALSE]>>
        \o RunsOfAll(t, Kids(t, n))
        \o <<[elem |-> n, is_tail |-> TRUE]>>
\* for child in elem: the runs of each child generator, concatenated
RunsOfAll(t, kids) ==
    IF kids = << >> THEN << >>
    ELSE RunsOf(t, Head(kids)) \o RunsOfAll(t, Tail(kids))

\* the run the generator is about to process
CurrentRun == RunsOf(tree, 1)[runIdx + 1]

\* head: tokenize_and_split(elem.text), every pair of the run yielded
WalkHead ==
    /\ ~walkFailed /\ runIdx < Len(RunsOf(tree, 1))
    /\ ~CurrentRun.is_tail
    /\ \E text \in textset :
          \E r \in {tokenize_and_split(tagset, encState, text)} :
              /\ ~r.raised
              /\ reads' = Append(reads, [elem |-> CurrentRun.elem,
                                          is_tail |-> CurrentRun.is_tail,
                                          text |-> text])
              /\ out' = out \o run_pairs(r, CurrentRun.elem, FALSE)
              /\ tag' = r.st.tag /\ start' = r.st.start
    /\ runIdx' = runIdx + 1
    /\ UNCHANGED <<tagset, tokens, pos, pairs, failed, tag0, start0,
                   tree, textset, walkFailed, fitVars, tokVars, tagVars, apiVars, scanVars, concVars, shareVars>>

\* tail: tokenize_and_split(elem.tail), every pair of the run yielded
WalkTail ==
    /\ ~walkFailed /\ runIdx < Len(RunsOf(tree, 1))
    /\ CurrentRun.is_tail
    /\ \E text \in textset :
          \E r \in {tokenize_and_split(tagset, encState, text)} :
              /\ ~r.raised
              /\ reads' = Append(reads, [elem |-> CurrentRun.elem,
                                          is_tail |-> CurrentRun.is_tail,
                                          text |-> text])
              /\ out' = out \o run_pairs(r, CurrentRun.elem, TRUE)
              /\ tag' = r.st.tag /\ start' = r.st.start
    /\ runIdx' = runIdx + 1
    /\ UNCHANGED <<tagset, tokens, pos, pairs, failed, tag0, start0,
                   tree, textset, walkFailed, fitVars, tokVars, tagVars, apiVars, scanVars, concVars, shareVars>>

\* encode_split raises in a head or tail run: the AssertionError leaves every
\* enclosing generator, nothing of the run is yielded
WalkRaise ==
    /\ ~walkFailed /\ runIdx < Len(RunsOf(tree, 1))
    /\ \E text \in textset :
          \E r \in {tokenize_and_split(tagset, encState, text)} :
              /\ r.raised
              /\ reads' = Append(reads, [elem |-> CurrentRun.elem,
                                          is_tail |-> CurrentRun.is_tail,
                                          text |-> text])
              /\ tag' = r.st.tag /\ start' = r.st.start
    /\ runIdx' = runIdx + 1
    /\ walkFailed' = TRUE
    /\ UNCHANGED <<tagset, tokens, pos, pairs, failed, tag0, start0,
                   tree, textset, out, fitVars, tokVars, tagVars, apiVars, scanVars, concVars, shareVars>>

\* the outermost generator is exhausted: StopIteration reaches the consumer
WalkEnded == ~walkFailed /\ runIdx = Len(RunsOf(tree, 1))

\* the encoder's stream variables while encode is not driven token by token
EncIdle == tokens = << >> /\ pos = 0 /\ pairs = << >> /\ failed = FALSE

\* ---- inputs of the walk ----
RECURSIVE AncestorsOrSelf(_, _)
AncestorsOrSelf(t, n) == IF n = 0 THEN {} ELSE {n} \cup AncestorsOrSelf(t, t[n])

\* every ordered tree of k elements
ShapesOf(k) ==
    {t \in [1..k -> 0..(k - 1)] :
        /\ t[1] = 0
        /\ \A i \in 2..k : t[i] \in AncestorsOrSelf(t, i - 1)}

SP == <<" ">>
hello == <<"h","e","l","l","o">>
John == <<"J","o","h","n">>
Doe == <<"D","o","e">>
Mary == <<"M","a","r","y">>
said == <<"s","a","i","d">>

\* the texts of short documents: absent, a word, a span opening, a span closing
GenericTexts ==
    { None,
      <<"a">>,
      SP \o StartSentinel(PER) \o SP \o <<"b">>,
      <<"c">> \o SP \o EndSentinel(PER) \o SP }

\* lxml's tree of the doctest document after encode_tags:
\* <p>hello  __PER_START John <b>Doe</b> __PER_END  <br>  __PER_START Mary __PER_END  said</p>
DoctestShape == <<0, 1, 1>>
DoctestTexts ==
    { None,
      hello \o SP \o SP \o StartSentinel(PER) \o SP \o John \o SP,
      Doe,
      SP \o EndSentinel(PER) \o SP \o SP,
      SP \o SP \o StartSentinel(PER) \o SP \o Mary \o SP \o EndSentinel(PER)
         \o SP \o SP \o said }
\* elem.text / elem.tail in the order of the walk: p, b, b's tail, br, br's tail, p's tail
DoctestReads ==
    << hello \o SP \o SP \o StartSentinel(PER) \o SP \o John \o SP,
       Doe,
       SP \o EndSentinel(PER) \o SP \o SP,
       None,
       SP \o SP \o StartSentinel(PER) \o SP \o Mary \o SP \o EndSentinel(PER)
          \o SP \o SP \o said,
       None >>

\* documents of absent and empty texts around a start sentinel
EmptyTexts == {None, << >>, StartSentinel(PER)}

\* documents in which a span of one tag meets the end sentinel of another
MismatchTexts ==
    { SP \o StartSentinel(PER) \o SP \o <<"b">>,
      <<"c">> \o SP \o EndSentinel(ORG) }

\* the encoder a walk starts with: IobSequence(tagset), as __init__ leaves it
WalkEncStates == {begin(O)}

InitWalk ==
    /\ tagset = {PER, ORG}
    /\ \E st \in WalkEncStates :
          /\ tag = st.tag /\ start = st.start
          /\ tag0 = st.tag /\ start0 = st.start
    /\ EncIdle
    /\ tree \in UNION {ShapesOf(k) : k \in 1..MaxNodes}
    /\ textset \in (IF tree = DoctestShape
                    THEN {GenericTexts, EmptyTexts, MismatchTexts, DoctestTexts}
                    ELSE {GenericTexts, EmptyTexts, MismatchTexts})
    /\ reads = << >>
    /\ runIdx = 0
    /\ out = << >>
    /\ walkFailed = FALSE
    /\ FitIdle
    /\ TokIdle
    /\ TagIdle
    /\ ApiIdle
    /\ ScanIdle
    /\ ConcIdle
    /\ ShareIdle

NextWalk == WalkHead \/ WalkTail \/ WalkRaise

SpecWalk == InitWalk /\ [][NextWalk]_vars

----------------------------------------------------------------------------
(* Claims about to_features_and_labels, checked under SpecWalk.            *)

\* the token a yielded pair stands for: tokens[index] of its observation
TokenOf(e) == e.features.tokens[e.features.index + 1]

\* the element names of the doctest document, in document order
DoctestNames == <<"p", "b", "br">>

\* the walk has read exactly the doctest document
DoctestWalked ==
    /\ tree = DoctestShape
    /\ ~walkFailed
    /\ [k \in DOMAIN reads |-> reads[k].text] = DoctestReads

\* C4: walking the doctest tree with a fresh encoder yields exactly five pairs,
\* tokens hello, John, Doe, Mary, said in that order with labels O, B-PER,
\* I-PER, B-PER, O; Doe belongs to element b as head text, Mary and said to
\* element br as tail text.
C4_DoctestWalk ==
    DoctestWalked =>
        /\ [k \in DOMAIN out |-> TokenOf(out[k])] = <<hello, John, Doe, Mary, said>>
        /\ [k \in DOMAIN out |-> out[k].label] =
              << O, <<"B","-">> \o PER, <<"I","-">> \o PER, <<"B","-">> \o PER, O >>
        /\ DoctestNames[out[3].features.elem] = "b" /\ ~out[3].features.is_tail
        /\ DoctestNames[out[4].features.elem] = "br" /\ out[4].features.is_tail
        /\ DoctestNames[out[5].features.elem] = "br" /\ out[5].features.is_tail

\* the doctest document has been walked to its end
C4_Witness == DoctestWalked /\ tag0 = O /\ Len(out) = 5

\* element m lies in the subtree of element n
InSubtree(m, n) == n \in AncestorsOrSelf(tree, m)

\* document reading order of two different runs, read off the tree alone:
\* an element's head precedes and its tail follows everything in its subtree,
\* and the subtree of an earlier sibling precedes that of a later one
ReadsBefore(r1, r2) ==
    \/ /\ InSubtree(r2.elem, r1.elem) /\ ~r1.is_tail
       /\ (r1.elem = r2.elem => r2.is_tail)
    \/ /\ InSubtree(r1.elem, r2.elem) /\ r2.is_tail
       /\ (r1.elem = r2.elem => ~r1.is_tail)
    \/ \E c1, c2 \in DOMAIN tree :
          /\ tree[c1] = tree[c2] /\ c1 < c2
          /\ InSubtree(r1.elem, c1) /\ InSubtree(r2.elem, c2)

RunOfPair(e) == [elem |-> e.features.elem, is_tail |-> e.features.is_tail]

\* C5: pairs are yielded in document reading order (a node's head text, then
\* each child's subtree in sibling order, then the node's tail text), the
\* pairs of one run in token order, and the encoder is fed the runs in that
\* same order; a walk that ends without error has been fed every run.
C5_DocumentOrder ==
    /\ \A i, j \in DOMAIN reads :
          i < j => ReadsBefore(reads[i], reads[j])
    /\ \A i, j \in DOMAIN out :
          i < j =>
             IF RunOfPair(out[i]) = RunOfPair(out[j])
             THEN out[i].features.index < out[j].features.index
             ELSE ReadsBefore(RunOfPair(out[i]), RunOfPair(out[j]))
    /\ \A k \in DOMAIN out :
          \E i \in DOMAIN reads :
             /\ reads[i].elem = out[k].features.elem
             /\ reads[i].is_tail = out[k].features.is_tail
    /\ WalkEnded =>
          \A n \in DOMAIN tree, b \in BOOLEAN :
             \E i \in DOMAIN reads : reads[i].elem = n /\ reads[i].is_tail = b

\* a finished walk of a three-element tree that yielded pairs from a child's
\* head, from that child's tail and from the root's tail
C5_Witness ==
    /\ Len(tree) = 3 /\ WalkEnded
    /\ \E i, j, k \in DOMAIN out :
          /\ i < j /\ j < k
          /\ out[i].features.elem = 2 /\ ~out[i].features.is_tail
          /\ out[j].features.elem = 2 /\ out[j].features.is_tail
          /\ out[k].features.elem = 1 /\ out[k].features.is_tail

----------------------------------------------------------------------------
(* HtmlFeaturesExtractor: one extractor, its label_encoder an IobSequence, *)
(* fit_transform called on one document after another.  A document is the  *)
(* parsed tree of the encoded html: its shape and, in the order of the     *)
(* walk, the head and tail texts of its elements.                          *)

\* the attributes an IobSequence instance has: what __init__ and begin set,
\* and the methods of the class
IobSequenceAttrs ==
    { "tagset", "tag", "start",
      "__init__", "begin", "encode", "encode_split", "_process_border_tokens",
      "_handle_border_token", "__iter__", "__next__", "next" }

RECURSIVE walk_from(_, _, _, _)
RECURSIVE walk_run(_, _, _, _)

\* the labels to_features_and_labels yields for the runs k.. of document doc
\* when consumed to the end from encoder state st
walk_from(ts, st, doc, k) ==
    IF k > Len(doc.texts)
    THEN [labels |-> << >>, st |-> st, raised |-> FALSE]
    ELSE walk_run(ts, tokenize_and_split(ts, st, doc.texts[k]), doc, k)

\* the labels of run k, r being what tokenize_and_split returned for it,
\* followed by those of the runs after it
labels_then(r, rest) ==
    [labels |-> r.labels \o rest.labels, st |-> rest.st, raised |-> rest.raised]

walk_run(ts, r, doc, k) ==
    IF r.raised
    THEN [labels |-> << >>, st |-> r.st, raised |-> TRUE]
    ELSE labels_then(r, walk_from(ts, r.st, doc, k + 1))

\* what zip(*res) gives fit_transform's caller, w being the consumed walk
zip_result(w) ==
    [raised |-> IF w.raised THEN "AssertionError" ELSE "none",
     labels |-> IF w.raised THEN << >> ELSE w.labels,
     st     |-> w.st]

\* HtmlFeaturesExtractor.fit_transform on the parsed document doc, the
\* label_encoder being in state st: res is the generator, not yet started;
\* self.label_encoder.reset() is looked up on the IobSequence; zip(*res) then
\* runs the walk
fit_transform(ts, st, doc) ==
    IF "reset" \notin IobSequenceAttrs
    THEN [raised |-> "AttributeError", labels |-> << >>, st |-> st]
    ELSE zip_result(walk_from(ts, begin(O), doc, 1))

\* documents of up to two elements
FitDocs ==
    UNION {[tree : ShapesOf(k), texts : [1..(2 * k) -> GenericTexts]] : k \in 1..2}

\* one call of fit_transform, to its return or to the exception that leaves it
FitTransform ==
    /\ calls < MaxCalls
    /\ \E doc \in FitDocs :
          \E r \in {fit_transform(tagset, encState, doc)} :
              /\ ftDoc' = doc
              /\ ftResult' = [raised |-> r.raised, labels |-> r.labels]
              /\ tag' = r.st.tag /\ start' = r.st.start
    /\ calls' = calls + 1
    /\ UNCHANGED <<tagset, tokens, pos, pairs, failed, tag0, start0, walkVars, tokVars, tagVars, apiVars, scanVars, concVars, shareVars>>

\* HtmlFeaturesExtractor.__init__ with the defaults: label_encoder is
\* IobSequence(self.tagset)
InitFit ==
    /\ tagset = {PER, ORG}
    /\ tag = begin(O).tag /\ start = begin(O).start
    /\ tag0 = tag /\ start0 = start
    /\ EncIdle
    /\ WalkIdle
    /\ FitIdle
    /\ TokIdle
    /\ TagIdle
    /\ ApiIdle
    /\ ScanIdle
    /\ ConcIdle
    /\ ShareIdle

NextFit == FitTransform

SpecFit == InitFit /\ [][NextFit]_vars

\* C6: on one long-lived extractor every fit_transform call gives its document
\* the labels a fresh encoder gives it, whatever state the previous document
\* left the encoder in.
C6_FreshLabelsPerDocument ==
    calls > 0 =>
        \E w \in {walk_from(tagset, begin(O), ftDoc, 1)} :
            IF w.raised
            THEN ftResult.raised = "AssertionError"
            ELSE ftResult.raised = "none" /\ ftResult.labels = w.labels

----------------------------------------------------------------------------
(* WordTokenizer and DefaultTokenizer (text_tokenizers.py).  Indices i are *)
(* Python's, from 0.  The characters outside ASCII are written by name.    *)

LDQUO  == "ldquo"     \* U+201C, left double quotation mark
RDQUO  == "rdquo"     \* U+201D, right double quotation mark
HELLIP == "hellip"    \* U+2026, horizontal ellipsis
POUND  == "pound"     \* U+00A3, pound sign
GRAVE  == "grave"     \* U+0060, grave accent (the backquote)

\* the token text of an opening quote, two backquotes
OpenQuoteToken == <<GRAVE, GRAVE>>

\* a TextToken
TextToken(chars, position, length) ==
    [chars |-> chars, position |-> position, length |-> length]

\* the character text[i] is c
Has(s, i, c) == i < Len(s) /\ s[i + 1] = c

\* \s at index i
SpaceAt(s, i) == i < Len(s) /\ IsSpace(s[i + 1])

\* a variant of \d that no character matches
IsDigit_never(c) == FALSE

\* \d
IsDigit(c) == c \in {"0", "1", "2", "3", "4", "5", "6", "7", "8", "9"}

\* $ at index i: the end of the string, or the newline that ends the string
AtDollar(s, i) == i = Len(s) \/ (i = Len(s) - 1 /\ s[i + 1] = "\n")

RECURSIVE ws_run(_, _)
\* \s+ at index i: the length of the run of whitespace that starts there
ws_run(s, i) == IF SpaceAt(s, i) THEN 1 + ws_run(s, i + 1) ELSE 0

\* [;#$%&|!?[\](){}<>] and the pound sign
Punct == {";", "#", "$", POUND, "%", "&", "|", "!", "?",
          "[", "]", "(", ")", "{", "}", "<", ">"}

\* number of entries of WordTokenizer.rules
NRules == Len(<<"ws", "ldquo", "quote", "grave2", "...", "--", ",", ".", "punct", "'">>)

\* rules[k][0].match(text[i:]): the length of the match, 0 when there is none
rule_len(k, s, i) ==
    CASE k = 1 -> ws_run(s, i)
      [] k = 2 -> IF Has(s, i, LDQUO) THEN 1 ELSE 0
      [] k = 3 -> IF Has(s, i, "\"") \/ Has(s, i, RDQUO) THEN 1 ELSE 0
      [] k = 4 -> IF Has(s, i, GRAVE) /\ Has(s, i + 1, GRAVE) THEN 2 ELSE 0
      [] k = 5 -> IF Has(s, i, HELLIP) THEN 1
                  ELSE IF Has(s, i, ".") /\ Has(s, i + 1, ".") /\ Has(s, i + 2, ".")
                       THEN 3 ELSE 0
      [] k = 6 -> IF Has(s, i, "-") /\ Has(s, i + 1, "-") THEN 2 ELSE 0
      [] k = 7 -> IF /\ Has(s, i, ",")
                     /\ \/ (i + 1 < Len(s) /\ ~IsDigit(s[i + 2]))
                        \/ AtDollar(s, i + 1)
                  THEN 1 ELSE 0
      [] k = 8 -> IF Has(s, i, ".") /\ AtDollar(s, i + 1) THEN 1 ELSE 0
      [] k = 9 -> IF i < Len(s) /\ s[i + 1] \in Punct THEN 1 ELSE 0
      [] OTHER -> IF Has(s, i, "'") /\ SpaceAt(s, i + 1) THEN 1
                  ELSE IF Has(s, i, "'") /\ Has(s, i + 1, "'") THEN 2 ELSE 0

\* a variant of the rules in which the comma and the period rules have the
\* empty token, as the whitespace rule has
rule_token_deleting(k) ==
    CASE k = 1 -> << >>
      [] k = 2 -> OpenQuoteToken
      [] k = 3 -> <<"'", "'">>
      [] k = 5 -> <<".", ".", ".">>
      [] k = 7 -> << >>
      [] k = 8 -> << >>
      [] OTHER -> None

\* rules[k][1]: the token written for a match, None for the matched text
rule_token(k) ==
    CASE k = 1 -> << >>
      [] k = 2 -> OpenQuoteToken
      [] k = 3 -> <<"'", "'">>
      [] k = 5 -> <<".", ".", ".">>
      [] OTHER -> None

\* for regex, token in self.rules: the first rule that matches at i, 0 if none
first_rule(s, i) ==
    IF \E k \in 1..NRules : rule_len(k, s, i) > 0
    THEN CHOOSE k \in 1..NRules :
            /\ rule_len(k, s, i) > 0
            /\ \A j \in 1..(k - 1) : rule_len(j, s, i) = 0
    ELSE 0

RECURSIVE scan(_, _, _)
RECURSIVE scan_rule(_, _, _, _)
RECURSIVE scan_match(_, _, _, _, _)

\* the while loop of _span_tokenize at cursor i with the run starting at
\* token_start: every TextToken it yields from there on
scan(s, i, token_start) ==
    IF i >= Len(s)
    THEN <<TextToken(Slice(s, token_start, Len(s)), token_start, Len(s) - token_start)>>
    ELSE scan_rule(s, i, token_start, first_rule(s, i))

\* one turn of the loop, k being the rule that matched at i: without a match
\* shift stays 1 and the run goes on
scan_rule(s, i, token_start, k) ==
    IF k = 0
    THEN scan(s, i + 1, token_start)
    ELSE scan_match(s, i, token_start, k, rule_len(k, s, i))

\* a match of length shift: the run before it is yielded, then the token of
\* the match, and the next run starts behind the match
scan_match(s, i, token_start, k, shift) ==
    << TextToken(Slice(s, token_start, i), token_start, i - token_start),
       TextToken(IF rule_token(k) = None THEN Slice(s, i, i + shift)
                 ELSE rule_token(k),
                 i, shift) >>
        \o scan(s, i + shift, i + shift)

\* a variant of open_quotes without the brackets: a straight quote opens only
\* at the start of the text or behind whitespace
open_quote_end_no_brackets(s) ==
    IF {q \in 0..(Len(s) - 1) : s[q + 1] = "\"" /\ (q = 0 \/ IsSpace(s[q]))} = {}
    THEN -1
    ELSE CHOOSE q \in {q \in 0..(Len(s) - 1) :
                          s[q + 1] = "\"" /\ (q = 0 \/ IsSpace(s[q]))} :
             \A r \in {r \in 0..(Len(s) - 1) :
                          s[r + 1] = "\"" /\ (r = 0 \/ IsSpace(s[r]))} : q <= r

\* open_quotes.search(text), a straight quote at the start of the text or
\* behind whitespace or one of ( [ { <, as quote.end() - 1: the index of the
\* first such quote, -1 if there is none
open_quote_end(s) ==
    LET opens == {q \in 0..(Len(s) - 1) :
                     /\ s[q + 1] = "\""
                     /\ \/ q = 0
                        \/ IsSpace(s[q])
                        \/ s[q] \in {"(", "[", "{", "<"}}
    IN  IF opens = {} THEN -1
        ELSE CHOOSE q \in opens : \A r \in opens : q <= r

\* a variant of the suffix loop that yields the tokens of the recursive call
\* with the positions they have in the suffix
shifted_not(toks, shift) == toks

\* the tokens t of a recursive call, yielded with position t.position + shift
shifted(toks, shift) ==
    [k \in DOMAIN toks |->
        TextToken(toks[k].chars, toks[k].position + shift, toks[k].length)]

RECURSIVE span_tokenize_gen(_)
RECURSIVE quote_split(_, _)

\* WordTokenizer._span_tokenize: every TextToken the generator yields
span_tokenize_gen(s) ==
    IF open_quote_end(s) >= 0
    THEN quote_split(s, open_quote_end(s))
    ELSE scan(s, 0, 0)

\* the open-quote branch: the tokens of text[:end], the open-quote token at end, the
\* tokens of text[end + 1:] moved by end + 1
quote_split(s, end) ==
    span_tokenize_gen(Slice(s, 0, end))
        \o <<TextToken(OpenQuoteToken, end, 1)>>
        \o shifted(span_tokenize_gen(Slice(s, end + 1, Len(s))), end + 1)

\* a variant of span_tokenize without the filter on t.chars
span_tokenize_unfiltered(s) == span_tokenize_gen(s)

\* WordTokenizer.span_tokenize: [t for t in self._span_tokenize(text) if t.chars]
span_tokenize(s) ==
    LET Kept(t) == t.chars # << >>
    IN  SelectSeq(span_tokenize_gen(s), Kept)

\* a variant of DefaultTokenizer.span_tokenize that removes the commas only
default_span_tokenize_commas(s) ==
    SelectSeq(span_tokenize(s), LAMBDA t : t.chars # <<",">>)

\* DefaultTokenizer.span_tokenize: standalone commas and semicolons removed
default_span_tokenize(s) ==
    LET Kept(t) == t.chars \notin {<<",">>, <<";">>}
    IN  SelectSeq(span_tokenize(s), Kept)

\* WordTokenizer().span_tokenize(text)
WordSpanTokenize ==
    /\ tokenizer = "none"
    /\ tokenizer' = "WordTokenizer"
    /\ spans' = span_tokenize(tokText)
    /\ UNCHANGED <<tokText, encVars, walkVars, fitVars, tagVars, apiVars, scanVars, concVars, shareVars>>

\* DefaultTokenizer().span_tokenize(text)
DefaultSpanTokenize ==
    /\ tokenizer = "none"
    /\ tokenizer' = "DefaultTokenizer"
    /\ spans' = default_span_tokenize(tokText)
    /\ UNCHANGED <<tokText, encVars, walkVars, fitVars, tagVars, apiVars, scanVars, concVars, shareVars>>

\* the characters of the texts tokenized
TextChars ==
    {"a", "1", " ", "\"", ",", ".", "(", ";", "'", GRAVE, "-", LDQUO, HELLIP}

\* the texts of the class's doctests on commas
ShelbourneRoad ==
    <<"S", "h", "e", "l", "b", "o", "u", "r", "n", "e", " ", "R", "o", "a", "d", ",">>
Population ==
    <<"p", "o", "p", "u", "l", "a", "t", "i", "o", "n", " ", "o", "f", " ">>
    \o <<"1", "0", "0", ",", "0", "0", "0">>
HundredThousand == <<"1", "0", "0", ",", "0", "0", "0">>

ExampleTexts == {ShelbourneRoad, Population, HundredThousand}

InitTokenizer ==
    /\ tokText \in SeqsUpTo(TextChars, MaxTextLen) \cup ExampleTexts
    /\ tokenizer = "none"
    /\ spans = << >>
    /\ tagset = {} /\ tag = O /\ start = TRUE /\ tag0 = O /\ start0 = TRUE
    /\ EncIdle
    /\ WalkIdle
    /\ FitIdle
    /\ TagIdle
    /\ ApiIdle
    /\ ScanIdle
    /\ ConcIdle
    /\ ShareIdle

NextTokenizer == WordSpanTokenize \/ DefaultSpanTokenize

SpecTokenizer == InitTokenizer /\ [][NextTokenizer]_vars

----------------------------------------------------------------------------
(* Claims about span_tokenize, checked under SpecTokenizer.                *)

\* text[position : position + length] of the tokenized text
SourceOf(t) == Slice(tokText, t.position, t.position + t.length)

\* C7 as stated: every token's chars is exactly the substring of the text at
\* the token's offsets, chars == text[position : position + length].
C7_CharsAreSubstring ==
    \A k \in DOMAIN spans : spans[k].chars = SourceOf(spans[k])

\* C7 amended: chars is the substring of the text at the token's offsets,
\* except for the tokens a replacement rule writes: a double quote (straight
\* or curly) is reported as two backquotes or two apostrophes and the
\* one-character ellipsis as three periods, each with the position of that
\* character and length 1; the offsets lie inside the text in every case.
C7_CharsAreSubstringOrReplacement ==
    \A k \in DOMAIN spans :
        /\ spans[k].position >= 0
        /\ spans[k].length >= 1
        /\ spans[k].position + spans[k].length <= Len(tokText)
        /\ \/ spans[k].chars = SourceOf(spans[k])
           \/ /\ spans[k].length = 1
              /\ \/ /\ SourceOf(spans[k]) = <<"\"">>
                    /\ spans[k].chars \in {OpenQuoteToken, <<"'", "'">>}
                 \/ /\ SourceOf(spans[k]) = <<LDQUO>>
                    /\ spans[k].chars = OpenQuoteToken
                 \/ /\ SourceOf(spans[k]) = <<RDQUO>>
                    /\ spans[k].chars = <<"'", "'">>
                 \/ /\ SourceOf(spans[k]) = <<HELLIP>>
                    /\ spans[k].chars = <<".", ".", ".">>

\* a text split at an opening quote that is not its first character: the
\* quote's token is a replacement, a later token is a substring found at its
\* moved offset
C7_Witness ==
    /\ tokenizer = "WordTokenizer"
    /\ \E j, k \in DOMAIN spans :
          /\ j < k
          /\ spans[j].chars = OpenQuoteToken /\ spans[j].position > 0
          /\ SourceOf(spans[j]) = <<"\"">>
          /\ spans[k].chars = SourceOf(spans[k])

\* C8: no token span_tokenize returns has empty chars, for WordTokenizer and
\* DefaultTokenizer, on the open-quote paths too.
C8_NoEmptyToken ==
    \A k \in DOMAIN spans : spans[k].chars # << >>

\* a text with an opening quote whose generator yields empty tokens, and a
\* non-empty result
C8_Witness ==
    /\ tokenizer # "none"
    /\ open_quote_end(tokText) > 0
    /\ \E k \in DOMAIN span_tokenize_gen(tokText) :
          span_tokenize_gen(tokText)[k].chars = << >>
    /\ Len(spans) >= 2

\* span_tokenize of the class that was called
SpanTokenizeOf(cls, s) ==
    IF cls = "DefaultTokenizer" THEN default_span_tokenize(s) ELSE span_tokenize(s)

\* the straight quote at index p opens: it starts the text or follows
\* whitespace or one of ( [ { <
OpensAt(s, p) ==
    /\ Has(s, p, "\"")
    /\ \/ p = 0
       \/ IsSpace(s[p])
       \/ s[p] \in {"(", "[", "{", "<"}

\* C9: for a straight quote at position p that starts the text or follows
\* whitespace or an opening bracket, span_tokenize returns the tokens of the
\* text before p, then the open-quote token at p with length 1, then the
\* tokens of the text after the quote, each position increased by p + 1; a
\* lone quote gives that one token, quote-space-a gives it and ("a", 2, 1).
C9_OpenQuoteSplit ==
    tokenizer # "none" =>
        /\ \A p \in 0..(Len(tokText) - 1) :
              OpensAt(tokText, p) =>
                 spans = SpanTokenizeOf(tokenizer, Slice(tokText, 0, p))
                            \o <<TextToken(OpenQuoteToken, p, 1)>>
                            \o [k \in DOMAIN SpanTokenizeOf(tokenizer,
                                       Slice(tokText, p + 1, Len(tokText))) |->
                                  LET t == SpanTokenizeOf(tokenizer,
                                               Slice(tokText, p + 1, Len(tokText)))[k]
                                  IN  TextToken(t.chars, t.position + p + 1, t.length)]
        /\ tokText = <<"\"">> => spans = <<TextToken(OpenQuoteToken, 0, 1)>>
        /\ tokText = <<"\"", " ", "a">> =>
              spans = <<TextToken(OpenQuoteToken, 0, 1), TextToken(<<"a">>, 2, 1)>>

\* a text with tokens on both sides of an opening quote
C9_Witness ==
    /\ tokenizer = "WordTokenizer"
    /\ \E p \in 1..(Len(tokText) - 1) :
          /\ OpensAt(tokText, p)
          /\ \E j, k \in DOMAIN spans :
                /\ spans[j].position < p
                /\ spans[k].position > p

----------------------------------------------------------------------------
(* Tagset.encode_tags on a text, and the sentinel matchers on its tokens.  *)

\* the literal pat matches s at index i (from 1), case-insensitively
MatchAtCI(pat, s, i) ==
    /\ i + Len(pat) - 1 <= Len(s)
    /\ \A k \in DOMAIN pat : LowerChar(s[i + k - 1]) = LowerChar(pat[k])

\* patterns['html_open_tag'], '<(%s)>' with re.I, matches s at i:
\* the tagset names it can match there
OpenTagsAt(ts, s, i) == {t \in ts : MatchAtCI(<<"<">> \o t \o <<">">>, s, i)}

\* patterns['html_close_tag'], '</(%s)>' with re.I
CloseTagsAt(ts, s, i) == {t \in ts : MatchAtCI(<<"<", "/">> \o t \o <<">">>, s, i)}

RECURSIVE sub_open(_, _, _)
RECURSIVE sub_open_at(_, _, _, _)
\* re.sub(patterns['html_open_tag'], r' __\1_START ', s) from index i on:
\* leftmost matches, not overlapping, \1 being the name as the text has it
sub_open(ts, s, i) ==
    IF i > Len(s) THEN << >>
    ELSE IF OpenTagsAt(ts, s, i) = {}
         THEN <<s[i]>> \o sub_open(ts, s, i + 1)
         ELSE sub_open_at(ts, s, i, Len(CHOOSE t \in OpenTagsAt(ts, s, i) : TRUE))

\* a match at i whose group \1 has n characters
sub_open_at(ts, s, i, n) ==
    SP \o StartSentinel(SubSeq(s, i + 1, i + n)) \o SP
        \o sub_open(ts, s, i + n + 2)

RECURSIVE sub_close(_, _, _)
RECURSIVE sub_close_at(_, _, _, _)
\* re.sub(patterns['html_close_tag'], r' __\1_END ', s) from index i on
sub_close(ts, s, i) ==
    IF i > Len(s) THEN << >>
    ELSE IF CloseTagsAt(ts, s, i) = {}
         THEN <<s[i]>> \o sub_close(ts, s, i + 1)
         ELSE sub_close_at(ts, s, i, Len(CHOOSE t \in CloseTagsAt(ts, s, i) : TRUE))

sub_close_at(ts, s, i, n) ==
    SP \o EndSentinel(SubSeq(s, i + 2, i + n + 1)) \o SP
        \o sub_close(ts, s, i + n + 3)

\* a variant of encode_tags that leaves the close tags in the text
encode_tags_open_only(ts, s) == sub_open(ts, s, 1)

\* Tagset.encode_tags
encode_tags(ts, s) == sub_close(ts, sub_open(ts, s, 1), 1)

\* tagset.encode_tags(html)
EncodeTags ==
    /\ phase = "raw"
    /\ encoded' = encode_tags(tagset, html)
    /\ phase' = "encoded"
    /\ UNCHANGED <<html, decoded, encVars, walkVars, fitVars, tokVars, apiVars, scanVars, concVars, shareVars>>

\* start_tag_or_none and end_tag_or_none on every token of the encoded text
DecodeTokens ==
    /\ phase = "encoded"
    /\ decoded' = [k \in DOMAIN split(encoded) |->
                      [start |-> start_tag_or_none(tagset, split(encoded)[k]),
                       end   |-> end_tag_or_none(tagset, split(encoded)[k])]]
    /\ phase' = "decoded"
    /\ UNCHANGED <<html, encoded, encVars, walkVars, fitVars, tokVars, apiVars, scanVars, concVars, shareVars>>

\* the characters of the texts encoded: markup, letters in both cases, space
MarkupChars == {"<", "/", ">", "b", "B", "i", " "}

\* whole markup tags, of names inside and outside the tagsets, in both cases
MarkupTags ==
    { <<"<", "b", ">">>, <<"<", "/", "B", ">">>, <<"<", "i", ">">>,
      <<"<", "B", "i", ">">>, <<"<", "/", "b", "i", ">">> }

\* the pieces a text is put together from
MarkupPieces == {<<c>> : c \in MarkupChars} \cup MarkupTags

RECURSIVE Concat(_)
\* the pieces of a text joined
Concat(ps) == IF ps = << >> THEN << >> ELSE Head(ps) \o Concat(Tail(ps))

\* the texts handed to encode_tags
HtmlTexts == {Concat(ps) : ps \in SeqsUpTo(MarkupPieces, MaxHtmlLen)}

\* the configured tagsets of the codec
CodecTagsets == {{<<"b">>}, {<<"B">>, <<"i">>}, {<<"b", "i">>}}

InitTagset ==
    /\ tagset \in CodecTagsets
    /\ html \in HtmlTexts
    /\ phase = "raw"
    /\ encoded = << >>
    /\ decoded = << >>
    /\ tag = O /\ start = TRUE /\ tag0 = O /\ start0 = TRUE
    /\ EncIdle
    /\ WalkIdle
    /\ FitIdle
    /\ TokIdle
    /\ ApiIdle
    /\ ScanIdle
    /\ ConcIdle
    /\ ShareIdle

NextTagset == EncodeTags \/ DecodeTokens

SpecTagset == InitTagset /\ [][NextTagset]_vars

\* the text holds the one markup tag open \o v \o ">" and no other markup
OnlyTag(s, open, v) ==
    \E i \in DOMAIN s :
        /\ i + Len(open) + Len(v) <= Len(s)
        /\ SubSeq(s, i, i + Len(open) + Len(v)) = open \o v \o <<">">>
        /\ \A k \in DOMAIN s :
              (k < i \/ k > i + Len(open) + Len(v)) => s[k] \notin {"<", "/", ">"}

\* the spellings of name t in any letter case, taken from the text
Spellings(s, t) ==
    {v \in {SubSeq(s, i, i + Len(t) - 1) : i \in 1..(Len(s) - Len(t) + 1)} :
        [k \in DOMAIN v |-> LowerChar(v[k])] = [k \in DOMAIN t |-> LowerChar(t[k])]}

\* the tokens of the encoded text that one of the matchers recognises
Recognised ==
    LET Test(d) == d.start # None \/ d.end # None
    IN  SelectSeq(decoded, Test)

\* C10: for every name t of the tagset, written in the markup in any letter
\* case, start_tag_or_none of the start sentinel written for it and
\* end_tag_or_none of its end sentinel both return t in upper case.
C10_SentinelRoundTrip ==
    phase = "decoded" =>
        \A t \in tagset :
            \A v \in Spellings(html, t) :
                /\ OnlyTag(html, <<"<">>, v) =>
                      Recognised = <<[start |-> Upper(t), end |-> None]>>
                /\ OnlyTag(html, <<"<", "/">>, v) =>
                      Recognised = <<[start |-> None, end |-> Upper(t)]>>

\* a configured name in lower case met in the markup in upper case, decoded
C10_Witness ==
    /\ phase = "decoded"
    /\ tagset = {<<"b">>}
    /\ html = <<"<", "/", "B", ">">>
    /\ Recognised = <<[start |-> None, end |-> <<"B">>]>>

\* the case-folded text, as re.I compares it
Folded(s) == [k \in DOMAIN s |-> LowerChar(s[k])]

\* the lengths of the names whose open (lead = 1) or close (lead = 2) markup
\* tag stands at index i of the text: "<" or "</", the name in any letter
\* case, ">"
TagNameLens(ts, s, i, lead) ==
    {Len(t) : t \in {t \in ts :
        /\ i + lead + Len(t) <= Len(s)
        /\ s[i] = "<"
        /\ lead = 2 => s[i + 1] = "/"
        /\ Folded(SubSeq(s, i + lead, i + lead + Len(t) - 1)) = Folded(t)
        /\ s[i + lead + Len(t)] = ">"}}

\* index i lies inside a markup tag of a tagset name that starts before it
InsideTag(ts, s, i) ==
    \E j \in 1..(i - 1) : \E lead \in {1, 2} :
        \E n \in TagNameLens(ts, s, j, lead) : i <= j + lead + n

\* what index i of the text contributes to the encoded text: the padded
\* sentinel with the name as the markup spells it where a tag of a tagset name
\* starts, nothing inside such a tag, the character itself anywhere else
EncodedPiece(ts, s, i) ==
    IF TagNameLens(ts, s, i, 1) # {}
    THEN <<" ">> \o <<"_", "_">>
            \o SubSeq(s, i + 1, i + (CHOOSE n \in TagNameLens(ts, s, i, 1) : TRUE))
            \o <<"_", "S", "T", "A", "R", "T">> \o <<" ">>
    ELSE IF TagNameLens(ts, s, i, 2) # {}
    THEN <<" ">> \o <<"_", "_">>
            \o SubSeq(s, i + 2, i + 1 + (CHOOSE n \in TagNameLens(ts, s, i, 2) : TRUE))
            \o <<"_", "E", "N", "D">> \o <<" ">>
    ELSE IF InsideTag(ts, s, i) THEN << >>
    ELSE <<s[i]>>

\* C11: encode_tags replaces every open and close markup tag whose name is in
\* the tagset, compared case-insensitively, by the sentinel of that name
\* (spelled as the markup spells it) with a space on each side, and leaves
\* every other character unchanged and in place, markup tags of other names
\* included.
C11_EncodeTagsFrame ==
    phase \in {"encoded", "decoded"} =>
        encoded = Concat([i \in DOMAIN html |-> EncodedPiece(tagset, html, i)])

\* a text with a tag of a tagset name, a tag of another name and a character
\* between them, encoded
C11_Witness ==
    /\ phase = "encoded"
    /\ tagset = {<<"b">>}
    /\ html = <<"<", "i", ">", " ", "<", "/", "B", ">">>
    /\ encoded = <<"<", "i", ">", " ", " ", "_", "_", "B", "_", "E", "N", "D", " ">>

----------------------------------------------------------------------------
(* encode on token streams that also hold tokens a sentinel pattern        *)
(* matches only as a prefix: patterns['start_tag'] and patterns['end_tag'] *)
(* are used with .match, which anchors the start of the token only.        *)

\* tokens that go on after a sentinel text
PrefixedTokens == {StartSentinel(PER) \o <<"S">>, EndSentinel(per) \o <<"S">>}

\* IobSequence(tagset), then encode(tokens) on any token list
InitEncoderAnyToken ==
    /\ tagset \in TagsetChoices
    /\ tokens \in SeqsUpTo(TokenChoices \cup PrefixedTokens, MaxTokens)
    /\ tag = begin(O).tag /\ start = begin(O).start
    /\ tag0 = tag /\ start0 = start
    /\ pos = 0
    /\ pairs = << >>
    /\ failed = FALSE
    /\ WalkIdle
    /\ FitIdle
    /\ TokIdle
    /\ TagIdle
    /\ ApiIdle
    /\ ScanIdle
    /\ ConcIdle
    /\ ShareIdle

SpecEncoderAnyToken == InitEncoderAnyToken /\ [][NextEncoder]_vars

\* the labels over the tagset: O, and B- and I- before the upper-cased name
\* of a member
LabelAlphabet(ts) ==
    {O} \cup {<<"B", "-">> \o Upper(t) : t \in ts}
        \cup {<<"I", "-">> \o Upper(t) : t \in ts}

\* C12: every label encode emits is O, or B- or I- followed by the
\* upper-cased name of a tagset member, and whatever start_tag_or_none or
\* end_tag_or_none returns for a token of the stream is the upper-cased name
\* of a tagset member.
C12_LabelsOverTagset ==
    /\ \A k \in DOMAIN pairs : pairs[k][2] \in LabelAlphabet(tagset)
    /\ \A k \in 1..pos :
          /\ start_tag_or_none(tagset, tokens[k]) \in {None} \cup {Upper(t) : t \in tagset}
          /\ end_tag_or_none(tagset, tokens[k]) \in {None} \cup {Upper(t) : t \in tagset}

----------------------------------------------------------------------------
(* One IobSequence called method by method: begin(tag), next(seq), and one *)
(* token taken through encode.                                             *)

\* most method calls made on the encoder
MaxOps == 4

\* one token through zip(_process_border_tokens(...), self): the label zip
\* pairs it with (None for a border token or a failed assert), the state left
encode_one(ts, st, token) ==
    IF handle_border_token(ts, st, token).raised
    THEN [label |-> None, raised |-> TRUE, st |-> st]
    ELSE IF handle_border_token(ts, st, token).ret
         THEN [label |-> None, raised |-> FALSE,
               st |-> handle_border_token(ts, st, token).st]
         ELSE [label |-> next(st).label, raised |-> FALSE, st |-> next(st).st]

\* seq.begin(t)
ApiBegin ==
    /\ Len(trace) < MaxOps
    /\ \E t \in {O, PER, ORG} :
          \E st \in {begin(t)} :
              /\ tag' = st.tag /\ start' = st.start
              /\ trace' = Append(trace, [op |-> "begin", arg |-> t, label |-> None])
    /\ UNCHANGED <<tagset, tokens, pos, pairs, failed, tag0, start0,
                   walkVars, fitVars, tokVars, tagVars, scanVars, concVars, shareVars>>

\* next(seq)
ApiNext ==
    /\ Len(trace) < MaxOps
    /\ \E n \in {next(encState)} :
          /\ tag' = n.st.tag /\ start' = n.st.start
          /\ trace' = Append(trace, [op |-> "next", arg |-> None, label |-> n.label])
    /\ UNCHANGED <<tagset, tokens, pos, pairs, failed, tag0, start0,
                   walkVars, fitVars, tokVars, tagVars, scanVars, concVars, shareVars>>

\* encode on a stream of one token, consumed
ApiEncode ==
    /\ Len(trace) < MaxOps
    /\ \E token \in TokenChoices :
          \E r \in {encode_one(tagset, encState, token)} :
              /\ tag' = r.st.tag /\ start' = r.st.start
              /\ trace' = Append(trace, [op |-> "encode", arg |-> token,
                                         label |-> r.label])
    /\ UNCHANGED <<tagset, tokens, pos, pairs, failed, tag0, start0,
                   walkVars, fitVars, tokVars, tagVars, scanVars, concVars, shareVars>>

\* IobSequence(tagset)
InitApi ==
    /\ tagset \in TagsetChoices
    /\ tag = begin(O).tag /\ start = begin(O).start
    /\ tag0 = tag /\ start0 = start
    /\ trace = << >>
    /\ EncIdle
    /\ WalkIdle
    /\ FitIdle
    /\ TokIdle
    /\ TagIdle
    /\ ScanIdle
    /\ ConcIdle
    /\ ShareIdle

NextApi == ApiBegin \/ ApiNext \/ ApiEncode

SpecApi == InitApi /\ [][NextApi]_vars

\* the call starts a span: begin with a tag other than O, or a start sentinel
\* taken through encode
Reopens(e) ==
    \/ e.op = "begin" /\ e.arg # O
    \/ e.op = "encode" /\ Truthy(start_tag_or_none(tagset, e.arg))

\* C13: from every reachable encoder state, after begin("O") every label
\* emitted is O until the next start sentinel or begin call with another tag.
C13_BeginOResets ==
    \A i \in DOMAIN trace :
        (trace[i].op = "begin" /\ trace[i].arg = O) =>
            \A j \in (i + 1)..Len(trace) :
                (\A k \in (i + 1)..j : ~Reopens(trace[k])) =>
                    trace[j].label \in {None, O}

\* begin("O") called inside a span whose start flag is already cleared, and a
\* label emitted after it
C13_Witness ==
    /\ Len(trace) = 4
    /\ trace[1].op = "begin" /\ trace[1].arg = PER
    /\ trace[2].label = <<"B", "-">> \o PER
    /\ trace[3].op = "begin" /\ trace[3].arg = O
    /\ trace[4].op = "next" /\ trace[4].label = O

----------------------------------------------------------------------------
(* _span_tokenize run step by step: the generator frames of the recursion  *)
(* on the open-quote path, the turns of the while loop, and the list       *)
(* comprehension of span_tokenize that consumes the outermost generator.   *)
(* A frame holds its text, the sum (base) of the shifts its callers add to *)
(* the positions it yields, where it stands (pc), and the loop's i and     *)
(* token_start.                                                            *)

\* the frame of a call self._span_tokenize(s)
Frame(s, base) ==
    [text |-> s, base |-> base, pc |-> "search", i |-> 0, token_start |-> 0]

\* the running frame
Top == stack[Len(stack)]

\* the stack with the running frame replaced
WithTop(f) == [stack EXCEPT ![Len(stack)] = f]

\* a variant of the loop that leaves the cursor where it is
cursor_stays(i, shift) == i

\* i += shift
cursor_after(i, shift) == i + shift

\* text[:end], the argument of the first recursive call
prefix_text(s, end) == Slice(s, 0, end)

\* text[shift:] with shift = end + 1, the argument of the second one
suffix_text(s, end) == Slice(s, end + 1, Len(s))

\* a token as the outermost generator yields it: every caller on the suffix
\* path has added its shift to the position
Yielded(f, chars, position, length) ==
    TextToken(chars, position + f.base, length)

\* quote = self.open_quotes.search(text) finds an open quote: the generator
\* of text[:end] is started
ScanSplit ==
    /\ stack # << >> /\ Top.pc = "search"
    /\ open_quote_end(Top.text) >= 0
    /\ stack' = Append(WithTop([Top EXCEPT !.pc = "quote"]),
                       Frame(prefix_text(Top.text, open_quote_end(Top.text)), Top.base))
    /\ UNCHANGED <<yielded, encVars, walkVars, fitVars, tokVars, tagVars, apiVars, concVars, shareVars>>

\* the prefix is exhausted: the open-quote token is yielded and the generator
\* of text[shift:] is started
ScanQuote ==
    /\ stack # << >> /\ Top.pc = "quote"
    /\ yielded' = Append(yielded,
                         Yielded(Top, OpenQuoteToken, open_quote_end(Top.text), 1))
    /\ stack' = Append(WithTop([Top EXCEPT !.pc = "return"]),
                       Frame(suffix_text(Top.text, open_quote_end(Top.text)),
                             Top.base + open_quote_end(Top.text) + 1))
    /\ UNCHANGED <<encVars, walkVars, fitVars, tokVars, tagVars, apiVars, concVars, shareVars>>

\* return, or the end of the generator's body: the frame is left
ScanReturn ==
    /\ stack # << >> /\ Top.pc = "return"
    /\ stack' = SubSeq(stack, 1, Len(stack) - 1)
    /\ UNCHANGED <<yielded, encVars, walkVars, fitVars, tokVars, tagVars, apiVars, concVars, shareVars>>

\* no open quote: i = 0, token_start = 0, the loop is entered
ScanEnterLoop ==
    /\ stack # << >> /\ Top.pc = "search"
    /\ open_quote_end(Top.text) < 0
    /\ stack' = WithTop([Top EXCEPT !.pc = "loop", !.i = 0, !.token_start = 0])
    /\ UNCHANGED <<yielded, encVars, walkVars, fitVars, tokVars, tagVars, apiVars, concVars, shareVars>>

\* if i >= len(text): the last run is yielded, break
ScanLoopEnd ==
    /\ stack # << >> /\ Top.pc = "loop"
    /\ Top.i >= Len(Top.text)
    /\ yielded' = Append(yielded,
                         Yielded(Top, Slice(Top.text, Top.token_start, Len(Top.text)),
                                 Top.token_start, Len(Top.text) - Top.token_start))
    /\ stack' = WithTop([Top EXCEPT !.pc = "return"])
    /\ UNCHANGED <<encVars, walkVars, fitVars, tokVars, tagVars, apiVars, concVars, shareVars>>

\* a rule matches at i: the run before it and the token of the match are
\* yielded, token_start = i + shift, i += shift
ScanLoopMatch ==
    /\ stack # << >> /\ Top.pc = "loop"
    /\ Top.i < Len(Top.text)
    /\ first_rule(Top.text, Top.i) # 0
    /\ \E k \in {first_rule(Top.text, Top.i)} :
          \E shift \in {rule_len(k, Top.text, Top.i)} :
              /\ yielded' = yielded \o
                    << Yielded(Top, Slice(Top.text, Top.token_start, Top.i),
                               Top.token_start, Top.i - Top.token_start),
                       Yielded(Top, IF rule_token(k) = None
                                    THEN Slice(Top.text, Top.i, Top.i + shift)
                                    ELSE rule_token(k),
                               Top.i, shift) >>
              /\ stack' = WithTop([Top EXCEPT !.token_start = Top.i + shift,
                                              !.i = cursor_after(Top.i, shift)])
    /\ UNCHANGED <<encVars, walkVars, fitVars, tokVars, tagVars, apiVars, concVars, shareVars>>

\* no rule matches at i: shift = 1, i += shift
ScanLoopNoMatch ==
    /\ stack # << >> /\ Top.pc = "loop"
    /\ Top.i < Len(Top.text)
    /\ first_rule(Top.text, Top.i) = 0
    /\ stack' = WithTop([Top EXCEPT !.i = cursor_after(Top.i, 1)])
    /\ UNCHANGED <<yielded, encVars, walkVars, fitVars, tokVars, tagVars, apiVars, concVars, shareVars>>

\* WordTokenizer.span_tokenize returns: the outermost generator is exhausted
\* and the list holds its tokens with non-empty chars
ScanCollect ==
    /\ stack = << >> /\ tokenizer = "none"
    /\ tokenizer' = "WordTokenizer"
    /\ spans' = SelectSeq(yielded, LAMBDA t : t.chars # << >>)
    /\ UNCHANGED <<tokText, stack, yielded, encVars, walkVars, fitVars, tagVars, apiVars, concVars, shareVars>>

\* span_tokenize(text) is called: the outermost generator is created
InitScan ==
    /\ tokText \in SeqsUpTo(TextChars, MaxTextLen)
    /\ tokenizer = "none"
    /\ spans = << >>
    /\ stack = <<Frame(tokText, 0)>>
    /\ yielded = << >>
    /\ tagset = {PER} /\ tag = O /\ start = TRUE /\ tag0 = O /\ start0 = TRUE
    /\ EncIdle
    /\ WalkIdle
    /\ FitIdle
    /\ TagIdle
    /\ ApiIdle
    /\ ConcIdle
    /\ ShareIdle

NextScan ==
    \/ ScanSplit \/ ScanQuote \/ ScanReturn \/ ScanEnterLoop
    \/ ScanLoopEnd \/ ScanLoopMatch \/ ScanLoopNoMatch \/ ScanCollect

SpecScan == InitScan /\ [][NextScan]_vars

\* the list comprehension keeps asking the generator for its next token
SpecScanFair == SpecScan /\ WF_vars(NextScan)

\* a turn of the while loop that does not break is about to run
LoopTurn == stack # << >> /\ Top.pc = "loop" /\ Top.i < Len(Top.text)

\* C14: span_tokenize terminates on every input: it returns; the cursor
\* advances by at least one character per turn of the loop; every recursive
\* call on the open-quote path is on a strictly shorter string; the empty
\* string yields the empty token sequence.
C14_SpanTokenizeTerminates ==
    /\ <>(tokenizer # "none")
    /\ [][LoopTurn => /\ Len(stack') = Len(stack)
                      /\ stack'[Len(stack)].i >= Top.i + 1]_vars
    /\ [](\A k \in 2..Len(stack) : Len(stack[k].text) < Len(stack[k - 1].text))
    /\ []((tokenizer # "none" /\ tokText = << >>) => spans = << >>)

\* the loop running, past its first turn, two recursive calls deep
C14_Witness ==
    /\ Len(stack) = 3
    /\ Top.pc = "loop"
    /\ Top.i >= 1

----------------------------------------------------------------------------
(* Several traversals running interleaved, each handed its own IobSequence *)
(* as label_encoder.  A traversal takes the tokens of its head and tail    *)
(* texts in walk order; another traversal may run between any two of its   *)
(* steps, also between the yield of a token and the call of next(self)     *)
(* that labels it.                                                         *)

\* most head and tail runs of a document traversed concurrently
MaxRuns == 2

\* the traversals
Travs == {1, 2}

\* a variant in which every traversal is handed the same instance
encoder_shared(i) == 1

\* the IobSequence instance traversal i was handed as label_encoder
encoder_of(i) == i

\* the tokens traversal i meets, in walk order: tokenize_func(text or '') of
\* every head and tail text
StreamOf(doc) ==
    Concat([k \in DOMAIN doc |-> split(IF doc[k] = None THEN << >> ELSE doc[k])])

\* the token traversal i is about to take
NextToken(i) == StreamOf(docs[i])[taken[i] + 1]

\* traversal i can take a token
CanTake(i) == ~stopped[i] /\ ~pending[i] /\ taken[i] < Len(StreamOf(docs[i]))

\* a start sentinel or the end sentinel of the open span: handled, not yielded
TravBorder ==
    \E i \in Travs :
        /\ CanTake(i)
        /\ \E r \in {handle_border_token(tagset, encs[encoder_of(i)], NextToken(i))} :
              /\ r.ret
              /\ encs' = [encs EXCEPT ![encoder_of(i)] = r.st]
        /\ taken' = [taken EXCEPT ![i] = taken[i] + 1]
        /\ UNCHANGED <<docs, pending, labels, stopped, encVars, walkVars, fitVars,
                       tokVars, tagVars, apiVars, scanVars, shareVars>>

\* the assert fails: the AssertionError ends traversal i
TravRaise ==
    \E i \in Travs :
        /\ CanTake(i)
        /\ \E r \in {handle_border_token(tagset, encs[encoder_of(i)], NextToken(i))} :
              r.raised
        /\ taken' = [taken EXCEPT ![i] = taken[i] + 1]
        /\ stopped' = [stopped EXCEPT ![i] = TRUE]
        /\ UNCHANGED <<encs, docs, pending, labels, encVars, walkVars, fitVars,
                       tokVars, tagVars, apiVars, scanVars, shareVars>>

\* any other token is yielded by _process_border_tokens
TravYield ==
    \E i \in Travs :
        /\ CanTake(i)
        /\ \E r \in {handle_border_token(tagset, encs[encoder_of(i)], NextToken(i))} :
              ~r.ret /\ ~r.raised
        /\ taken' = [taken EXCEPT ![i] = taken[i] + 1]
        /\ pending' = [pending EXCEPT ![i] = TRUE]
        /\ UNCHANGED <<encs, docs, labels, stopped, encVars, walkVars, fitVars,
                       tokVars, tagVars, apiVars, scanVars, shareVars>>

\* zip takes the label of the yielded token from next(self)
TravLabel ==
    \E i \in Travs :
        /\ pending[i]
        /\ \E n \in {next(encs[encoder_of(i)])} :
              /\ labels' = [labels EXCEPT ![i] = Append(labels[i], n.label)]
              /\ encs' = [encs EXCEPT ![encoder_of(i)] = n.st]
        /\ pending' = [pending EXCEPT ![i] = FALSE]
        /\ UNCHANGED <<docs, taken, stopped, encVars, walkVars, fitVars,
                       tokVars, tagVars, apiVars, scanVars, shareVars>>

\* the texts of the documents traversed concurrently
ConcTexts == GenericTexts \ {None}

\* the documents: the head and tail texts of their elements in walk order
ConcDocs == UNION {[1..k -> ConcTexts] : k \in 1..MaxRuns}

\* every traversal is started on its document with a new IobSequence(tagset)
InitConc ==
    /\ tagset = {PER, ORG}
    /\ encs = [i \in Travs |-> begin(O)]
    /\ docs \in [Travs -> ConcDocs]
    /\ taken = [i \in Travs |-> 0]
    /\ pending = [i \in Travs |-> FALSE]
    /\ labels = [i \in Travs |-> << >>]
    /\ stopped = [i \in Travs |-> FALSE]
    /\ tag = O /\ start = TRUE /\ tag0 = O /\ start0 = TRUE
    /\ EncIdle
    /\ WalkIdle
    /\ FitIdle
    /\ TokIdle
    /\ TagIdle
    /\ ApiIdle
    /\ ScanIdle
    /\ ShareIdle

NextConc == TravBorder \/ TravRaise \/ TravYield \/ TravLabel

SpecConc == InitConc /\ [][NextConc]_vars

\* traversal i has ended: its document is consumed, or the assert raised
TravEnded(i) ==
    \/ stopped[i]
    \/ taken[i] = Len(StreamOf(docs[i])) /\ ~pending[i]

\* what the document gives when it is processed alone by a new encoder
Alone(doc) == walk_from(tagset, begin(O), [texts |-> doc], 1)

\* s is a prefix of t
IsPrefix(s, t) == Len(s) <= Len(t) /\ s = SubSeq(t, 1, Len(s))

\* C15: when traversals run interleaved, each with its own IobSequence, the
\* labels of every document are those the document gives when processed
\* alone: at any moment a prefix of them, at the end all of them, and the
\* traversal ends by the AssertionError exactly when it does alone.
C15_InterleavedAsAlone ==
    \A i \in Travs :
        \E w \in {Alone(docs[i])} :
            /\ ~w.raised => IsPrefix(labels[i], w.labels)
            /\ stopped[i] => w.raised
            /\ (TravEnded(i) /\ ~stopped[i]) => (~w.raised /\ labels[i] = w.labels)

\* traversal 1 waits inside a span for the label of a token it has yielded,
\* while traversal 2 stands in the middle of its document, a span open and a
\* label produced
C15_Witness ==
    /\ pending[1] /\ encs[encoder_of(1)].tag = PER
    /\ ~TravEnded(2) /\ encs[encoder_of(2)].tag = PER
    /\ labels[2] # << >>

----------------------------------------------------------------------------
(* Claims about the arguments of features_func, checked under SpecWalk.    *)

\* the tokens of a head or tail text that match neither sentinel pattern
RealTokens(text) ==
    SelectSeq(split(IF text = None THEN << >> ELSE text), IsReal)

\* the pairs yielded for the run of element n, head or tail, in order
PairsOfRun(n, is_tail) ==
    SelectSeq(out, LAMBDA e : e.features.elem = n /\ e.features.is_tail = is_tail)

\* the pairs of the run read as reads[i] carry the observations of
\* features_func(0, run, elem, is_tail), features_func(1, run, elem, is_tail),
\* and so on, one per token of the run
RunObserved(i, run, mine) ==
    /\ Len(mine) = Len(run)
    /\ \A k \in DOMAIN mine :
          mine[k].features = [index |-> k - 1, tokens |-> run,
                              elem |-> reads[i].elem, is_tail |-> reads[i].is_tail]

\* C16: the feature function is called once per yielded pair with (i, run,
\* elem, is_tail): run the sentinel-free tokens of the one head or tail text
\* being processed, i the 0-based position of the pair's token in run, elem
\* the element owning the text, is_tail false for head and true for tail
\* text; no pair carries tokens of another run or element.
C16_FeatureArguments ==
    /\ \A i \in DOMAIN reads :
          IF walkFailed /\ i = Len(reads)
          THEN PairsOfRun(reads[i].elem, reads[i].is_tail) = << >>
          ELSE RunObserved(i, RealTokens(reads[i].text),
                           PairsOfRun(reads[i].elem, reads[i].is_tail))
    /\ \A k \in DOMAIN out :
          \E i \in DOMAIN reads :
              /\ reads[i].elem = out[k].features.elem
              /\ reads[i].is_tail = out[k].features.is_tail

\* the doctest walked: the second pair of a head run that holds a sentinel,
\* and the second pair of a tail run
C16_Witness ==
    /\ DoctestWalked
    /\ out[2].features.index = 1 /\ ~out[2].features.is_tail
    /\ out[2].features.tokens = <<hello, John>>
    /\ out[5].features.index = 1 /\ out[5].features.is_tail
    /\ out[5].features.tokens = <<Mary, said>>

----------------------------------------------------------------------------
(* Claims about DefaultTokenizer and about the comma and period rules,     *)
(* checked under SpecTokenizer.                                            *)

\* a token whose chars is a bare comma or semicolon
BareCommaOrSemicolon(t) == t.chars = <<",">> \/ t.chars = <<";">>

\* how many of the first k tokens of toks are no bare comma or semicolon
KeptUpTo(toks, k) ==
    Cardinality({j \in 1..k : ~BareCommaOrSemicolon(toks[j])})

\* dflt is word with exactly the bare commas and semicolons taken out
RemovesOnlyCommas(word, dflt) ==
    /\ Len(dflt) = KeptUpTo(word, Len(word))
    /\ \A k \in DOMAIN word :
          ~BareCommaOrSemicolon(word[k]) => dflt[KeptUpTo(word, k)] = word[k]

\* C17: DefaultTokenizer.span_tokenize(text) is WordTokenizer.span_tokenize(text)
\* with exactly the tokens whose chars is a bare comma or semicolon removed;
\* every other token is kept with its chars, position and length, in the
\* same relative order.
C17_DefaultRemovesCommas ==
    tokenizer = "DefaultTokenizer" =>
        RemovesOnlyCommas(span_tokenize(tokText), spans)

\* a text whose comma and semicolon tokens are removed and whose word is kept
C17_Witness ==
    /\ tokenizer = "DefaultTokenizer"
    /\ tokText = <<"a", ",", ";">>
    /\ spans = <<TextToken(<<"a">>, 0, 1)>>

----------------------------------------------------------------------------
(* Absent and empty texts, checked under SpecWalk.                         *)

\* the step reads a head or tail text that is absent (None) or empty
ReadsEmptyText ==
    /\ Len(reads') = Len(reads) + 1
    /\ reads'[Len(reads')].text \in {None, << >>}

\* C18: a head or tail text that is absent or empty contributes no pair,
\* raises no error and leaves the encoder's tag and start flag as they were,
\* so an open span goes on unchanged into the next run.
C18_EmptyTextIsNeutral ==
    [][ReadsEmptyText =>
          /\ out' = out
          /\ walkFailed' = FALSE
          /\ tag' = tag /\ start' = start]_vars

\* a span opened with its start flag still set, then an absent and an empty
\* text read, the span still open and the flag still set
C18_Witness ==
    /\ Len(reads) >= 3
    /\ reads[1].text = StartSentinel(PER)
    /\ reads[2].text = None
    /\ reads[3].text = << >>
    /\ tag = PER /\ start
    /\ ~walkFailed


\* the character at index p of the text (from 0) is a comma followed by a digit
CommaBeforeDigit(s, p) ==
    /\ p + 1 < Len(s)
    /\ s[p + 1] = ","
    /\ s[p + 2] \in {"0", "1", "2", "3", "4", "5", "6", "7", "8", "9"}

\* it is a comma followed by a character that is no digit, or by the end
CommaBeforeOther(s, p) ==
    /\ p < Len(s)
    /\ s[p + 1] = ","
    /\ ~CommaBeforeDigit(s, p)

\* token t covers index p of the text
Covers(t, p) == t.position <= p /\ p < t.position + t.length

\* the character at index p is emitted as a token of its own: chars is the
\* character, position p, length 1, and no other token covers p
OwnToken(toks, c, p) ==
    /\ \E k \in DOMAIN toks : toks[k] = TextToken(<<c>>, p, 1)
    /\ \A k \in DOMAIN toks : Covers(toks[k], p) => toks[k] = TextToken(<<c>>, p, 1)

\* C19: WordTokenizer.span_tokenize does not split at a comma that a digit
\* follows (one token holds the comma and the digit; 100,000 is one token of
\* length 7), and a comma followed by a non-digit or by the end of the text
\* ends the run before it and is its own token of length 1 at its offset
\* (Shelbourne Road, gives Shelbourne at 0, Road at 11 and the comma at 15).
C19_CommaAndDigits ==
    tokenizer = "WordTokenizer" =>
        /\ \A p \in 0..(Len(tokText) - 1) :
              /\ CommaBeforeDigit(tokText, p) =>
                    \E k \in DOMAIN spans : Covers(spans[k], p) /\ Covers(spans[k], p + 1)
              /\ CommaBeforeOther(tokText, p) => OwnToken(spans, ",", p)
        /\ tokText = HundredThousand => spans = <<TextToken(HundredThousand, 0, 7)>>
        /\ tokText = ShelbourneRoad =>
              spans = << TextToken(SubSeq(ShelbourneRoad, 1, 10), 0, 10),
                         TextToken(SubSeq(ShelbourneRoad, 12, 15), 11, 4),
                         TextToken(<<",">>, 15, 1) >>
        /\ tokText = Population =>
              spans[Len(spans)] = TextToken(HundredThousand, 14, 7)

\* a text with a comma before a digit and a comma at its end
C19_Witness ==
    /\ tokenizer = "WordTokenizer"
    /\ tokText = <<",", "1", ",">>
    /\ spans = <<TextToken(<<",", "1">>, 0, 2), TextToken(<<",">>, 2, 1)>>

\* the last character of the text is a period
PeriodAtEnd(s, p) == p = Len(s) - 1 /\ p >= 0 /\ s[p + 1] = "."

\* C20 as stated: a comma followed by a non-digit or by the end of the text,
\* and a period at the end of the text, are deleted: no token is emitted for
\* the comma or the period.
C20_CommaPeriodDeleted ==
    tokenizer = "WordTokenizer" =>
        \A p \in 0..(Len(tokText) - 1) :
            (CommaBeforeOther(tokText, p) \/ PeriodAtEnd(tokText, p)) =>
                \A k \in DOMAIN spans : ~Covers(spans[k], p)

\* C20 amended: such a comma and such a period end the run before them and
\* are emitted as tokens of their own, chars the comma or the period, length
\* 1, at their offset; the one exception is a period at the end of the text
\* that the ellipsis rule has taken as the last of three periods.
C20_CommaPeriodEmitted ==
    tokenizer = "WordTokenizer" =>
        \A p \in 0..(Len(tokText) - 1) :
            /\ CommaBeforeOther(tokText, p) => OwnToken(spans, ",", p)
            /\ PeriodAtEnd(tokText, p) =>
                  \/ OwnToken(spans, ".", p)
                  \/ \E k \in DOMAIN spans :
                        spans[k] = TextToken(<<".", ".", ".">>, p - 2, 3)

\* a text ending in a period behind a comma: both are tokens
C20_Witness ==
    /\ tokenizer = "WordTokenizer"
    /\ tokText = <<"a", ",", ".">>
    /\ spans = << TextToken(<<"a">>, 0, 1), TextToken(<<",">>, 1, 1),
                  TextToken(<<".">>, 2, 1) >>


----------------------------------------------------------------------------
(* The encoder state across the runs of one document, under SpecWalk.      *)

RECURSIVE DocTokens(_)
\* the tokens of the runs read so far, in the order of the walk, as one stream
DocTokens(rs) ==
    IF rs = << >> THEN << >>
    ELSE DocTokens(SubSeq(rs, 1, Len(rs) - 1))
            \o split(IF rs[Len(rs)].text = None THEN << >> ELSE rs[Len(rs)].text)

\* for every token of a stream, whether it is a real token
RealMask(stream) == [i \in DOMAIN stream |-> IsReal(stream[i])]

\* the indices of the real tokens of a stream, in order, real being its mask
RealIn(real) ==
    LET Test(i) == real[i]
    IN  SelectSeq([i \in DOMAIN real |-> i], Test)

\* the label of the real token at index i of a stream that a new encoder
\* reads, decided by the nearest sentinel before i wherever it stands
StreamLabel(stream, real, i) ==
    LET before == {j \in 1..(i - 1) : ~real[j]}
        j      == CHOOSE m \in before : \A n \in before : n <= m
    IN  IF before = {} THEN O
        ELSE IF MatchStartTag(tagset, stream[j])
             THEN IF ~real[i - 1]
                  THEN <<"B","-">> \o SentinelTag(stream[j])
                  ELSE <<"I","-">> \o SentinelTag(stream[j])
             ELSE O

\* C21: within one document the encoder state is carried from the end of each
\* head or tail run to the start of the next one: the labels yielded are those
\* of the document's runs read as one token stream, so a span opened by a
\* start sentinel in one run and closed in a later run labels its first real
\* token B-T and every later real token of every run in between I-T, whatever
\* element boundaries lie in between.
C21_StateCarriedAcrossRuns ==
    [](\E stream \in {DocTokens(reads)} :
          \E real \in {RealMask(stream)} :
              \E idx \in {RealIn(real)} :
                  /\ Len(out) <= Len(idx)
                  /\ ~walkFailed => Len(out) = Len(idx)
                  /\ \A k \in DOMAIN out :
                        out[k].label = StreamLabel(stream, real, idx[k]))

\* a span opened in one run, continued in a run of another element and closed
\* in a third run: B-PER, then I-PER twice, over three different runs
C21_Witness ==
    /\ ~walkFailed /\ tag = O
    /\ \E k \in DOMAIN out :
          /\ k + 2 \in DOMAIN out
          /\ out[k].label = <<"B","-">> \o PER
          /\ out[k + 1].label = <<"I","-">> \o PER
          /\ out[k + 2].label = <<"I","-">> \o PER
          /\ out[k + 1].features.elem # out[k].features.elem
          /\ <<out[k + 2].features.elem, out[k + 2].features.is_tail>>
                # <<out[k + 1].features.elem, out[k + 1].features.is_tail>>


----------------------------------------------------------------------------
(* Several traversals handed the same IobSequence as label_encoder, their   *)
(* head and tail runs interleaved.  A run is one call of tokenize_and_split *)
(* (encode_split consumes encode to the end before anything is yielded), so *)
(* the runs of the traversals alternate as wholes on the one (tag, start).  *)

\* head and tail texts of the documents sharing an encoder
SharedTexts == ConcTexts \cup {SP \o StartSentinel(ORG) \o SP \o <<"d">>}

\* the documents: the head and tail texts of their elements in walk order
SharedDocs == UNION {[1..k -> SharedTexts] : k \in 1..MaxRuns}

\* the text of the run traversal i is about to process
NextRunText(i) == shDocs[i][shRuns[i] + 1]

\* traversal i processes its next head or tail run on the shared instance
ShareRun ==
    \E i \in Travs :
        /\ ~shStopped[i] /\ shRuns[i] < Len(shDocs[i])
        /\ \E r \in {tokenize_and_split(tagset, shEnc, NextRunText(i))} :
              /\ ~r.raised
              /\ shLabels' = [shLabels EXCEPT ![i] = shLabels[i] \o r.labels]
              /\ shEnc' = r.st
        /\ shRuns' = [shRuns EXCEPT ![i] = shRuns[i] + 1]
        /\ UNCHANGED <<shDocs, shStopped, encVars, walkVars, fitVars, tokVars,
                       tagVars, apiVars, scanVars, concVars>>

\* the assert fails in the run: the AssertionError ends traversal i, nothing
\* of the run is yielded, the instance stays as the raise found it
ShareRaise ==
    \E i \in Travs :
        /\ ~shStopped[i] /\ shRuns[i] < Len(shDocs[i])
        /\ \E r \in {tokenize_and_split(tagset, shEnc, NextRunText(i))} :
              /\ r.raised
              /\ shEnc' = r.st
        /\ shRuns' = [shRuns EXCEPT ![i] = shRuns[i] + 1]
        /\ shStopped' = [shStopped EXCEPT ![i] = TRUE]
        /\ UNCHANGED <<shDocs, shLabels, encVars, walkVars, fitVars, tokVars,
                       tagVars, apiVars, scanVars, concVars>>

\* one IobSequence(tagset) is made and handed to every traversal
InitShared ==
    /\ tagset = {PER, ORG}
    /\ shEnc = begin(O)
    /\ shDocs \in [Travs -> SharedDocs]
    /\ shRuns = [i \in Travs |-> 0]
    /\ shLabels = [i \in Travs |-> << >>]
    /\ shStopped = [i \in Travs |-> FALSE]
    /\ tag = O /\ start = TRUE /\ tag0 = O /\ start0 = TRUE
    /\ EncIdle
    /\ WalkIdle
    /\ FitIdle
    /\ TokIdle
    /\ TagIdle
    /\ ApiIdle
    /\ ScanIdle
    /\ ConcIdle

NextShared == ShareRun \/ ShareRaise

SpecShared == InitShared /\ [][NextShared]_vars

\* what the first k runs of a document give when a new encoder processes them
\* with no other document in between
AloneUpTo(doc, k) == Alone(SubSeq(doc, 1, k))

\* the labels lbls of a traversal that has processed k runs of its document,
\* and has raised or not, are not what these runs give alone: the labels
\* differ, or the one has raised and the other has not
DivergedFrom(lbls, raised, doc, k) ==
    \E w \in {AloneUpTo(doc, k)} :
        \/ lbls # w.labels
        \/ raised # w.raised

\* the first sentinel among the tokens of a text is an end sentinel
FirstSentinelIsEnd(text) ==
    \E toks \in {split(text)} :
        \E m \in DOMAIN toks :
            /\ MatchEndTag(tagset, toks[m])
            /\ \A n \in 1..(m - 1) : IsReal(toks[n])

\* the label next(self) returns in state st
LabelIn(st) ==
    IF st.tag = O THEN O
    ELSE IF st.start THEN <<"B","-">> \o st.tag ELSE <<"I","-">> \o st.tag

\* C22: two traversals that share one IobSequence and whose runs interleave
\* do not give what each document gives alone.  A traversal that starts on a
\* real token while the runs of the other document processed so far leave a
\* span open either fails in that run or labels the token into the other
\* document's span, not O as it does alone; and a traversal whose own span
\* is open, and whose next run closes it without an error alone, fails the
\* active-tag assertion in that run when the other document has put another
\* tag on the instance.
C22_SharedEncoderDiverges ==
    [][\A i \in Travs : \A j \in Travs \ {i} :
          /\ ( /\ shRuns[i] = 0 /\ shRuns'[i] = 1
               /\ ~shStopped[j]
               /\ AloneUpTo(shDocs[j], shRuns[j]).st.tag # O
               /\ IsReal(Head(split(shDocs[i][1]))) )
             => \/ shStopped'[i]
                \/ /\ shLabels'[i] # << >>
                   /\ shLabels'[i][1] = LabelIn(AloneUpTo(shDocs[j], shRuns[j]).st)
                   /\ DivergedFrom(shLabels'[i], shStopped'[i], shDocs[i], shRuns'[i])
          /\ ( /\ shRuns'[i] = shRuns[i] + 1
               /\ ~AloneUpTo(shDocs[i], shRuns[i] + 1).raised
               /\ AloneUpTo(shDocs[i], shRuns[i]).st.tag # O
               /\ shEnc.tag # AloneUpTo(shDocs[i], shRuns[i]).st.tag
               /\ FirstSentinelIsEnd(shDocs[i][shRuns[i] + 1]) )
             => /\ shStopped'[i]
                /\ DivergedFrom(shLabels'[i], shStopped'[i], shDocs[i], shRuns'[i])]_vars

\* both cases in one state: traversal 2 has a label its document does not get
\* alone, and traversal 1 has failed the assertion on the end sentinel of its
\* own span, after a start sentinel of traversal 2, though its document
\* raises nothing alone
C22_Witness ==
    /\ shStopped[1] /\ ~Alone(shDocs[1]).raised
    /\ ~shStopped[2] /\ ~Alone(shDocs[2]).raised
    /\ ~IsPrefix(shLabels[2], Alone(shDocs[2]).labels)
    /\ shEnc.tag = ORG
    /\ \E k \in DOMAIN shDocs[2] : shDocs[2][k] = SP \o StartSentinel(ORG) \o SP \o <<"d">>


----------------------------------------------------------------------------
(* The eager encode_split against the lazy encode, under SpecEncoder: the  *)
(* steps of the specification consume encode(tokens) pair by pair.         *)

\* the lazy encode has been consumed to its end: the generator is exhausted,
\* or the assert has raised
EncodeEnded == failed \/ pos = Len(tokens)

\* C23: for every token sequence and every starting encoder state, the eager
\* encode_split(tokens) returns the same tokens and the same labels, in the
\* same order, as consuming the lazy encode(tokens) to its end, and leaves the
\* encoder in the same state (it raises exactly when the lazy consumption
\* raises); for a sequence with no real token it returns two empty sequences.
C23_EagerAsLazy ==
    EncodeEnded =>
        \E e \in {encode_split(tagset, [tag |-> tag0, start |-> start0], tokens)} :
            /\ e.raised = failed
            /\ e.st = encState
            /\ ~failed =>
                  /\ e.tokens = [k \in DOMAIN pairs |-> pairs[k][1]]
                  /\ e.labels = [k \in DOMAIN pairs |-> pairs[k][2]]
            /\ (~failed /\ \A i \in DOMAIN tokens : ~IsReal(tokens[i])) =>
                  e.tokens = << >> /\ e.labels = << >>

\* encode has been consumed to the end of a stream read from inside a span:
\* two pairs at least, a sentinel among the tokens
C23_Witness ==
    /\ pos = Len(tokens) /\ ~failed
    /\ tag0 # O /\ ~start0
    /\ Len(pairs) >= 2
    /\ \E i \in DOMAIN tokens : ~IsReal(tokens[i])


----------------------------------------------------------------------------
(* The spans of the tokens as a partition of the text, under SpecTokenizer. *)

\* the tokens of toks whose span holds index p of the text (from 0)
TokensOver(toks, p) == {k \in DOMAIN toks : Covers(toks[k], p)}

\* C24: for every input text, the tokens WordTokenizer.span_tokenize returns
\* are in strictly increasing position order, every token has length at least
\* 1 and lies inside the text, consecutive tokens do not overlap, every
\* non-whitespace character of the text lies inside exactly one token's span
\* and no whitespace character lies inside any span.
C24_SpansPartitionText ==
    tokenizer = "WordTokenizer" =>
        /\ \A k \in DOMAIN spans :
              /\ spans[k].length >= 1
              /\ spans[k].position >= 0
              /\ spans[k].position + spans[k].length <= Len(tokText)
        /\ \A k \in 1..(Len(spans) - 1) :
              /\ spans[k].position < spans[k + 1].position
              /\ spans[k].position + spans[k].length <= spans[k + 1].position
        /\ \A p \in 0..(Len(tokText) - 1) :
              IF tokText[p + 1] \in {" ", "\t", "\n"}
              THEN TokensOver(spans, p) = {}
              ELSE Cardinality(TokensOver(spans, p)) = 1

\* a text with whitespace between an open quote and a word: three characters,
\* two tokens, the space in neither
C24_Witness ==
    /\ tokenizer = "WordTokenizer"
    /\ tokText = <<"\"", " ", "a">>
    /\ Len(spans) = 2
    /\ spans[1].position = 0 /\ spans[2].position = 2


----------------------------------------------------------------------------
(* A start sentinel inside an open span, under SpecEncoder.                *)

\* the next input token is a start sentinel and a span is open
StartInsideSpanAhead ==
    /\ ~failed /\ pos < Len(tokens)
    /\ MatchStartTag(tagset, tokens[pos + 1])
    /\ tag # O

\* the token just consumed is a start sentinel and the next one is real
RealAfterStartAhead ==
    /\ ~failed /\ pos >= 1 /\ pos < Len(tokens)
    /\ MatchStartTag(tagset, tokens[pos])
    /\ IsReal(tokens[pos + 1])

\* C25: a start sentinel for tag T received while a span is open, of T or of
\* another tag, raises no error: the step that takes it emits no pair and
\* leaves the active tag T with the start flag set, and the next real token
\* is labelled B-T.  The state holds one tag, so one open span at most.
C25_StartInsideSpan ==
    [][/\ StartInsideSpanAhead =>
             /\ ~failed'
             /\ pos' = pos + 1
             /\ pairs' = pairs
             /\ tag' = SentinelTag(tokens[pos + 1])
             /\ start' = TRUE
       /\ RealAfterStartAhead =>
             /\ ~failed'
             /\ pairs' = Append(pairs, <<tokens[pos + 1],
                                         <<"B","-">> \o SentinelTag(tokens[pos])>>)
             /\ tag' = SentinelTag(tokens[pos]) /\ start' = FALSE]_vars

\* a stream read from inside a PER span: a real token labelled I-PER, a start
\* sentinel for ORG, and the next real token labelled B-ORG
C25_Witness ==
    /\ tag0 = PER /\ ~start0
    /\ tokens = << <<"a">>, StartSentinel(ORG), <<"b">> >>
    /\ pairs = << << <<"a">>, <<"I","-">> \o PER >>,
                  << <<"b">>, <<"B","-">> \o ORG >> >>
    /\ ~failed


----------------------------------------------------------------------------
(* The failure on a mismatched end sentinel, under SpecWalk.               *)

\* the step in which the AssertionError leaves the walk
WalkFails == ~walkFailed /\ walkFailed'

\* the tokens of the run read last
LastRunTokens(rs) ==
    split(IF rs[Len(rs)].text = None THEN << >> ELSE rs[Len(rs)].text)

\* C26: when a mismatched end sentinel makes the encoder fail, the active tag
\* and the start flag are exactly what they were before that sentinel was
\* seen (what the tokens of the run before it left), no pair is emitted for
\* the sentinel or for the run, and the walk of the document yields no
\* further pair after the failure.
C26_FailureLeavesState ==
    /\ [][WalkFails =>
             /\ out' = out
             /\ \E toks \in {LastRunTokens(reads')} :
                   \E m \in DOMAIN toks :
                       \E before \in {encode_list(tagset, encState, SubSeq(toks, 1, m - 1))} :
                           /\ ~before.raised
                           /\ MatchEndTag(tagset, toks[m])
                           /\ SentinelTag(toks[m]) # before.st.tag
                           /\ tag' = before.st.tag
                           /\ start' = before.st.start]_vars
    /\ [][walkFailed => out' = out /\ walkFailed']_vars
    /\ [](walkFailed => ~ENABLED NextWalk)

\* the walk has failed inside a PER span on the end sentinel of ORG, after the
\* span's first token was labelled: the tag is PER still, the start flag off
C26_Witness ==
    /\ walkFailed
    /\ tag = PER /\ ~start
    /\ out # << >>
    /\ out[Len(out)].label = <<"B","-">> \o PER
    /\ reads[Len(reads)].text = <<"c">> \o SP \o EndSentinel(ORG)

====
